---- MODULE Spec2Model ----
(***************************************************************************)
(* Model of imagebox's rendering core (crates/core): the highlight parser, *)
(* the greedy line wrapper and the font-size fitter of textarea.rs, and    *)
(* the generate_image pipeline of image_generator.rs.                      *)
(*                                                                         *)
(* Text is a sequence of one-character strings.  Glyph metrics are exact   *)
(* rationals (unscaled units over units_per_em); the f32 rounding of the   *)
(* source is not modelled, its ceil() is.                                  *)
(***************************************************************************)
EXTENDS Integers, Sequences, FiniteSets, TLC

VARIABLES
    \* inputs shared by wrap_text and prepare_textarea
    text, font,
    \* wrap_text / parse_highlighted_text applied on their own
    scale, max_width, segments, lines, wpc,
    \* prepare_textarea: its arguments, the locals of its search loop
    region_width, region_height, max_font_size, line_spacing,
    lo, hi, best_size, best_lines, best_spaced_line_height, best_block_height,
    fpc,
    \* history: the midpoints the loop has evaluated, in order
    mids,
    \* generate_image: the resources it reads, its locals, what it returns
    character_known, backgrounds, font_file, objects, textarea, max_size,
    gpc, loading, loading_paths, attempts, obj_idx, image, encoded,
    result, ret_image, steps, picks,
    \* the tray application: the keyboard hook's view of the modifier keys, the
    \* configuration, the flag and the channels shared by the hook thread, the
    \* event loop and the workers
    held, MODIFIER_KEYS, intercept_enter, process_mode, is_processing,
    enter_key_channel, hotkey_channel, epc, workers,
    \* history: what the hook did with the last Return press, and whether an
    \* Enter message was consumed without a worker being started for it
    last_return, enter_dropped

wrapVars == <<scale, max_width, segments, lines, wpc>>
fitArgs == <<region_width, region_height, max_font_size, line_spacing>>
fitVars == <<fitArgs, lo, hi, best_size, best_lines, best_spaced_line_height,
             best_block_height, fpc, mids>>
genArgs == <<character_known, backgrounds, font_file, objects, textarea, max_size>>
genVars == <<genArgs, gpc, loading, loading_paths, attempts, obj_idx, image,
             encoded, result, ret_image, steps, picks>>
trayVars == <<held, MODIFIER_KEYS, intercept_enter, process_mode, is_processing,
              enter_key_channel, hotkey_channel, epc, workers, last_return,
              enter_dropped>>
vars == <<text, font, wrapVars, fitVars, genVars, trayVars>>

----------------------------------------------------------------------------
(* Bounds of the model *)

MaxLen == 4
MaxScale == 3
MaxWidth == 4
MaxCaptionLen == 2
MaxRegion == 5
MaxCap == 2
MaxObjects == 2
MaxPending == 2
MaxHotkeys == 1
MaxWorkers == 2

----------------------------------------------------------------------------
(* Characters and fonts *)

NL == "\n"
\* "{" and "}" stand for the full-width markers U+3010 and U+3011
StartMarkers == {"[", "{"}
EndMarkers == {"]", "}"}
WideChars == {"W"}
Alphabet == {"a", "W", "[", "]", NL}

\* max_font_size is an Option<u32>: None is encoded as -1
NoCap == -1

\* A font: units_per_em, the unscaled advance of a narrow and of a wide glyph,
\* and the unscaled vertical metrics.
Fonts ==
    { [units_per_em |-> 2, narrow |-> 1, wide |-> 2,
       ascent |-> 2, descent |-> 0, line_gap |-> 0],
      [units_per_em |-> 4, narrow |-> 2, wide |-> 5,
       ascent |-> 4, descent |-> -1, line_gap |-> 1] }

HAdvanceUnscaled(f, ch) == IF ch \in WideChars THEN f.wide ELSE f.narrow

\* ceil(n / d) for d > 0
Ceil(n, d) == -((-n) \div d)

RECURSIVE SumAdvance(_, _)
SumAdvance(f, t) ==
    IF t = <<>> THEN 0
    ELSE HAdvanceUnscaled(f, Head(t)) + SumAdvance(f, Tail(t))

\* measure_text_width: the advances are summed unrounded, then ceil'ed once
MeasureTextWidth(t, f, sc) == Ceil(SumAdvance(f, t) * sc, f.units_per_em)

\* mutant of GetLineHeight: the scale divides instead of multiplying
GetLineHeightInverted(f, sc) ==
    Ceil((f.ascent - f.descent + f.line_gap) * f.units_per_em, sc)

GetLineHeight(f, sc) ==
    Ceil((f.ascent - f.descent + f.line_gap) * sc, f.units_per_em)

----------------------------------------------------------------------------
(* parse_highlighted_text *)

TextSegment(t, h) == [text |-> t, is_highlighted |-> h]

\* mutant of PushIfNonEmpty: an empty run is pushed too
PushAlways(segs, current, h) == Append(segs, TextSegment(current, h))

PushIfNonEmpty(segs, current, h) ==
    IF current # <<>> THEN Append(segs, TextSegment(current, h)) ELSE segs

\* mutant of FlushBeforeStart: the pending run is flushed with the new mode
FlushBeforeStartNewMode(segs, current, in_highlight) ==
    PushIfNonEmpty(segs, current, TRUE)

\* on a start marker the pending run is flushed with the mode it was read in
FlushBeforeStart(segs, current, in_highlight) ==
    PushIfNonEmpty(segs, current, in_highlight)

RECURSIVE ParseFrom(_, _, _, _, _)
ParseFrom(t, i, segs, current, in_highlight) ==
    IF i > Len(t) THEN PushIfNonEmpty(segs, current, in_highlight)
    ELSE LET ch == t[i] IN
         IF ch \in StartMarkers
         THEN ParseFrom(t, i + 1, FlushBeforeStart(segs, current, in_highlight),
                        <<ch>>, TRUE)
         ELSE IF ch \in EndMarkers
         THEN IF in_highlight
              THEN ParseFrom(t, i + 1,
                             Append(segs, TextSegment(Append(current, ch), TRUE)),
                             <<>>, FALSE)
              ELSE ParseFrom(t, i + 1, segs, Append(current, ch), in_highlight)
         ELSE ParseFrom(t, i + 1, segs, Append(current, ch), in_highlight)

ParseHighlightedText(t) == ParseFrom(t, 1, <<>>, <<>>, FALSE)

----------------------------------------------------------------------------
(* str::lines and wrap_text *)

\* str::lines: split at each "\n"; a last piece is kept only when non-empty
RECURSIVE SplitLines(_, _, _, _)
SplitLines(t, i, cur, acc) ==
    IF i > Len(t) THEN (IF cur # <<>> THEN Append(acc, cur) ELSE acc)
    ELSE IF t[i] = NL THEN SplitLines(t, i + 1, <<>>, Append(acc, cur))
    ELSE SplitLines(t, i + 1, Append(cur, t[i]), acc)

Lines(t) == SplitLines(t, 1, <<>>, <<>>)

\* the characters of the parsed segments, each with its segment's flag
RECURSIVE SegmentChars(_)
SegmentChars(segs) ==
    IF segs = <<>> THEN <<>>
    ELSE [k \in 1..Len(Head(segs).text) |->
             [ch |-> Head(segs).text[k], hl |-> Head(segs).is_highlighted]]
         \o SegmentChars(Tail(segs))

EmptyLine == << <<TextSegment(<<>>, FALSE), 0>> >>

\* mutant of PushRun: an empty run is pushed too
PushRunAlways(line, seg, f, sc) ==
    Append(line, <<seg, MeasureTextWidth(seg.text, f, sc)>>)

\* flush of the current run into the current line
PushRun(line, seg, f, sc) ==
    IF seg.text # <<>>
    THEN Append(line, <<seg, MeasureTextWidth(seg.text, f, sc)>>)
    ELSE line

PushLine(ls, line) == IF line # <<>> THEN Append(ls, line) ELSE ls

\* mutant of OverflowLineWidth: the running width restarts at 0
OverflowLineWidthZero(char_width) == 0

\* the start of a fresh line after an overflow: the running width restarts at
\* the width of the character that did not fit
OverflowLineWidth(char_width) == char_width

\* mutant of NewRun: the run starts empty, the character is lost
NewRunEmpty(ch, hl) == TextSegment(<<>>, hl)

\* a fresh run holding the character that could not join the current one
NewRun(ch, hl) == TextSegment(<<ch>>, hl)

\* mutant of FitsOnLine: a character that exactly fills the line is wrapped
FitsOnLineStrict(line_width, char_width, mw) == line_width + char_width < mw

\* the test of the wrapping loop: the character still fits on the current line
FitsOnLine(line_width, char_width, mw) == line_width + char_width <= mw

RECURSIVE WrapChars(_, _, _, _, _, _, _, _, _)
WrapChars(cs, i, f, sc, mw, ls, current_line, current_segment, line_width) ==
    IF i > Len(cs)
    THEN PushLine(ls, PushRun(current_line, current_segment, f, sc))
    ELSE LET ch == cs[i].ch
             hl == cs[i].hl
             char_width == MeasureTextWidth(<<ch>>, f, sc)
         IN  IF FitsOnLine(line_width, char_width, mw)
             THEN IF current_segment.is_highlighted = hl
                  THEN WrapChars(cs, i + 1, f, sc, mw, ls, current_line,
                                 TextSegment(Append(current_segment.text, ch), hl),
                                 line_width + char_width)
                  ELSE WrapChars(cs, i + 1, f, sc, mw, ls,
                                 PushRun(current_line, current_segment, f, sc),
                                 NewRun(ch, hl),
                                 line_width + char_width)
             ELSE WrapChars(cs, i + 1, f, sc, mw,
                            PushLine(ls, PushRun(current_line, current_segment, f, sc)),
                            <<>>, NewRun(ch, hl),
                            OverflowLineWidth(char_width))

\* mutant of WrapParagraph: a blank paragraph adds no line
WrapParagraphSkipsBlank(paragraph, f, sc, mw) ==
    IF paragraph = <<>> THEN <<>>
    ELSE WrapChars(SegmentChars(ParseHighlightedText(paragraph)), 1, f, sc, mw,
                   <<>>, <<>>, TextSegment(<<>>, FALSE), 0)

\* the lines one paragraph adds
WrapParagraph(paragraph, f, sc, mw) ==
    IF paragraph = <<>> THEN <<EmptyLine>>
    ELSE WrapChars(SegmentChars(ParseHighlightedText(paragraph)), 1, f, sc, mw,
                   <<>>, <<>>, TextSegment(<<>>, FALSE), 0)

RECURSIVE WrapParagraphs(_, _, _, _)
WrapParagraphs(ps, f, sc, mw) ==
    IF ps = <<>> THEN <<>>
    ELSE WrapParagraph(Head(ps), f, sc, mw) \o WrapParagraphs(Tail(ps), f, sc, mw)

WrapText(t, f, sc, mw) ==
    LET ls == WrapParagraphs(Lines(t), f, sc, mw)
    IN  IF ls = <<>> THEN <<EmptyLine>> ELSE ls

----------------------------------------------------------------------------
(* prepare_textarea *)

Min(a, b) == IF a <= b THEN a ELSE b

\* sum of the recorded run widths of one line
RECURSIVE SumWidths(_)
SumWidths(line) ==
    IF line = <<>> THEN 0 ELSE Head(line)[2] + SumWidths(Tail(line))

\* max_width of the loop body: the largest line sum, 0 at least
RECURSIVE MaxLineWidth(_)
MaxLineWidth(ls) ==
    IF ls = <<>> THEN 0
    ELSE LET w == SumWidths(Head(ls))
             m == MaxLineWidth(Tail(ls))
         IN  IF w >= m THEN w ELSE m

\* mutant of MaxSize: the cap is ignored
MaxSizeNoCap(cap, rh) == rh

MaxSize(cap, rh) == IF cap # NoCap THEN Min(cap, rh) ELSE rh

\* mutant of LoopCond: the last candidate is never evaluated
LoopCondStrict(l, h) == l < h

\* while lo <= hi
LoopCond(l, h) == l <= h

\* u32::midpoint rounds towards zero
Midpoint(l, h) == (l + h) \div 2

\* line spacing is the fraction num/den
SpacedLineHeight(line_height, ls) ==
    Ceil(line_height * (ls.den + ls.num), ls.den)

\* mutant of TotalHeight: the gap after the last line is not counted
TotalHeightLessGap(ls, line_height, spaced_line_height) ==
    IF ls = <<>> THEN line_height
    ELSE spaced_line_height * Len(ls) - (spaced_line_height - line_height)

\* total_height of the loop body
TotalHeight(ls, line_height, spaced_line_height) ==
    IF ls = <<>> THEN line_height ELSE spaced_line_height * Len(ls)

\* mutant of Fits: the height is not compared
FitsWidthOnly(mw, th, rw, rh) == mw <= rw

Fits(mw, th, rw, rh) == mw <= rw /\ th <= rh

\* the layout of one candidate size
Candidate(t, f, rw, ls, mid) ==
    LET wrapped == WrapText(t, f, mid, rw)
        line_height == GetLineHeight(f, mid)
        slh == SpacedLineHeight(line_height, ls)
    IN  [lines |-> wrapped,
         spaced_line_height |-> slh,
         max_width |-> MaxLineWidth(wrapped),
         total_height |-> TotalHeight(wrapped, line_height, slh)]

\* the fallback the search starts from: the whole text as one plain run of
\* recorded width 0
InitialBestLines(t) == << << <<TextSegment(t, FALSE), 0>> >> >>

InitialSearch(t, cap, rh) ==
    [lo |-> 1, hi |-> MaxSize(cap, rh), best_size |-> 1,
     best_lines |-> InitialBestLines(t),
     best_spaced_line_height |-> 1, best_block_height |-> 1]

\* mutant of SearchStep: a feasible midpoint records its size and heights but
\* not its lines
SearchStepStaleLines(t, f, rw, rh, ls, st) ==
    LET mid == Midpoint(st.lo, st.hi)
        c == Candidate(t, f, rw, ls, mid)
    IN  IF Fits(c.max_width, c.total_height, rw, rh)
        THEN [lo |-> mid + 1, hi |-> st.hi, best_size |-> mid,
              best_lines |-> st.best_lines,
              best_spaced_line_height |-> c.spaced_line_height,
              best_block_height |-> c.total_height]
        ELSE [st EXCEPT !.hi = mid - 1]

\* mutant of SearchStep: an infeasible midpoint also discards the size below it
SearchStepSkipsBelow(t, f, rw, rh, ls, st) ==
    LET mid == Midpoint(st.lo, st.hi)
        c == Candidate(t, f, rw, ls, mid)
    IN  IF Fits(c.max_width, c.total_height, rw, rh)
        THEN [lo |-> mid + 1, hi |-> st.hi, best_size |-> mid,
              best_lines |-> c.lines,
              best_spaced_line_height |-> c.spaced_line_height,
              best_block_height |-> c.total_height]
        ELSE [st EXCEPT !.hi = mid - 2]

\* mutant of SearchStep: a feasible midpoint stays in the interval
SearchStepKeepsMid(t, f, rw, rh, ls, st) ==
    LET mid == Midpoint(st.lo, st.hi)
        c == Candidate(t, f, rw, ls, mid)
    IN  IF Fits(c.max_width, c.total_height, rw, rh)
        THEN [lo |-> mid, hi |-> st.hi, best_size |-> mid,
              best_lines |-> c.lines,
              best_spaced_line_height |-> c.spaced_line_height,
              best_block_height |-> c.total_height]
        ELSE [st EXCEPT !.hi = mid - 1]

\* one iteration of the loop body
SearchStep(t, f, rw, rh, ls, st) ==
    LET mid == Midpoint(st.lo, st.hi)
        c == Candidate(t, f, rw, ls, mid)
    IN  IF Fits(c.max_width, c.total_height, rw, rh)
        THEN [lo |-> mid + 1, hi |-> st.hi, best_size |-> mid,
              best_lines |-> c.lines,
              best_spaced_line_height |-> c.spaced_line_height,
              best_block_height |-> c.total_height]
        ELSE [st EXCEPT !.hi = mid - 1]

RECURSIVE Search(_, _, _, _, _, _)
Search(t, f, rw, rh, ls, st) ==
    IF LoopCond(st.lo, st.hi)
    THEN Search(t, f, rw, rh, ls, SearchStep(t, f, rw, rh, ls, st))
    ELSE [font_size |-> st.best_size, lines |-> st.best_lines,
          spaced_line_height |-> st.best_spaced_line_height,
          block_height |-> st.best_block_height]

PrepareTextarea(t, f, rw, rh, cap, ls) ==
    Search(t, f, rw, rh, ls, InitialSearch(t, cap, rh))

----------------------------------------------------------------------------
(* Resources: image files, the font file, colours *)

MaxDecodeAttempts == 3
KiB == 1024
ConservativePercent == 90
ShadowScaleTenths == 13

\* the files that decode; every other path fails in load_image
DecodablePaths == {"bg_ok", "face_ok"}

\* an Option<RgbaImage>: a raster is its size and what was painted on it
NoImage == [some |-> FALSE, w |-> 0, h |-> 0, paint |-> <<>>]

PaintOp(op, what, x, y, size, color) ==
    [op |-> op, what |-> what, x |-> x, y |-> y, size |-> size, color |-> color]

LoadImage(path) ==
    IF path \in DecodablePaths
    THEN [some |-> TRUE,
          w |-> IF path = "bg_ok" THEN 4 ELSE 2,
          h |-> IF path = "bg_ok" THEN 3 ELSE 2,
          paint |-> <<PaintOp("pixels", <<path>>, 0, 0, 0, "")>>]
    ELSE NoImage

\* mutant of PathsEmpty: the empty list is not caught
PathsEmptyUnchecked(paths) == FALSE

\* load_random_image's early return
PathsEmpty(paths) == paths = <<>>

\* mutant of LoadFont: a file that reads but does not parse counts as a font
LoadFontUnparsed(file) == file # "missing"

\* load_font: the file must be read and must parse
LoadFont(file) == file = "valid"

PrimaryColor == "pink"

NoColor == [kind |-> "none", value |-> ""]

\* ColorInput::to_rgba
ToRgba(c, primary) ==
    IF c.kind = "rgb" THEN c.value
    ELSE IF c.value = "primary" THEN primary
    ELSE IF c.value = "white" THEN "white"
    ELSE "black"

\* the character's image files by pattern (get_character_images)
CharacterImgs(pattern) ==
    IF pattern = "face" THEN <<"face_ok">>
    ELSE IF pattern = "bad" THEN <<"face_bad">>
    ELSE <<>>

RECURSIVE PatternFiles(_)
PatternFiles(patterns) ==
    IF patterns = <<>> THEN {}
    ELSE {CharacterImgs(Head(patterns))[i] :
              i \in 1..Len(CharacterImgs(Head(patterns)))}
         \cup PatternFiles(Tail(patterns))

IsElementOf(S) == [p \in {"face_bad", "face_ok"} |-> p \in S]

\* available_imgs: the files of all patterns, sorted and without duplicates
AvailableImgs(patterns) ==
    LET keep == IsElementOf(PatternFiles(patterns))
        Kept(p) == keep[p]
    IN  SelectSeq(<<"face_bad", "face_ok">>, Kept)

----------------------------------------------------------------------------
(* draw_text_with_shadow, draw_textarea, compress_image *)

\* mutant of DrawTextWithShadow: the shadow is drawn over the text
DrawTextShadowOnTop(txt, x, y, size, color, shadow_offset) ==
    << PaintOp("text", txt, x, y, size * ShadowScaleTenths, color),
       PaintOp("text", txt, x + shadow_offset[1], y + shadow_offset[2],
               size * ShadowScaleTenths, "black") >>

\* two draw calls at 1.3 times the size: the black shadow, then the text
DrawTextWithShadow(txt, x, y, size, color, shadow_offset) ==
    << PaintOp("text", txt, x + shadow_offset[1], y + shadow_offset[2],
               size * ShadowScaleTenths, "black"),
       PaintOp("text", txt, x, y, size * ShadowScaleTenths, color) >>

\* i32 division truncates towards zero
TruncDiv(a, b) == IF a >= 0 THEN a \div b ELSE -((-a) \div b)

RECURSIVE DrawRuns(_, _, _, _, _, _)
DrawRuns(line, k, x, y, size, cfg) ==
    IF k > Len(line) THEN <<>>
    ELSE LET segment == line[k][1]
             segment_width == line[k][2]
             color == IF segment.is_highlighted /\ cfg.highlight # NoColor
                      THEN ToRgba(cfg.highlight, PrimaryColor)
                      ELSE ToRgba(cfg.font_color, PrimaryColor)
         IN  IF segment.text # <<>>
             THEN DrawTextWithShadow(segment.text, x, y, size, color,
                                     cfg.shadow_offset)
                  \o DrawRuns(line, k + 1, x + segment_width, y, size, cfg)
             ELSE DrawRuns(line, k + 1, x, y, size, cfg)

\* mutant of LineStartX: Center adds the whole slack
LineStartXNoHalving(cfg, line_width) ==
    LET x1 == cfg.position[1]
        x2 == x1 + cfg.size[1]
    IN  IF cfg.align = "Left" THEN x1
        ELSE IF cfg.align = "Center" THEN x1 + (cfg.size[1] - line_width)
        ELSE x2 - line_width

\* horizontal alignment of one line
LineStartX(cfg, line_width) ==
    LET x1 == cfg.position[1]
        x2 == x1 + cfg.size[1]
    IN  IF cfg.align = "Left" THEN x1
        ELSE IF cfg.align = "Center" THEN x1 + TruncDiv(cfg.size[1] - line_width, 2)
        ELSE x2 - line_width

\* mutant of BlockStartY: Bottom starts the block at the region bottom
BlockStartYAtBottom(cfg, block_height) ==
    LET y1 == cfg.position[2]
        y2 == y1 + cfg.size[2]
    IN  IF cfg.valign = "Top" THEN y1
        ELSE IF cfg.valign = "Middle" THEN y1 + TruncDiv(cfg.size[2] - block_height, 2)
        ELSE y2

\* vertical alignment of the block
BlockStartY(cfg, block_height) ==
    LET y1 == cfg.position[2]
        y2 == y1 + cfg.size[2]
    IN  IF cfg.valign = "Top" THEN y1
        ELSE IF cfg.valign = "Middle" THEN y1 + TruncDiv(cfg.size[2] - block_height, 2)
        ELSE y2 - block_height

\* mutant of DrawLines: the cursor does not advance
RECURSIVE DrawLinesNoAdvance(_, _, _, _)
DrawLinesNoAdvance(prepared, n, y, cfg) ==
    IF n > Len(prepared.lines) THEN <<>>
    ELSE LET line == prepared.lines[n]
             x == LineStartX(cfg, SumWidths(line))
             y2 == cfg.position[2] + cfg.size[2]
             next_y == y
         IN  DrawRuns(line, 1, x, y, prepared.font_size, cfg)
             \o (IF next_y >= y2 THEN <<>>
                 ELSE DrawLinesNoAdvance(prepared, n + 1, next_y, cfg))

\* the loop over the lines: paint, advance the cursor, stop at the bottom
RECURSIVE DrawLines(_, _, _, _)
DrawLines(prepared, n, y, cfg) ==
    IF n > Len(prepared.lines) THEN <<>>
    ELSE LET line == prepared.lines[n]
             x == LineStartX(cfg, SumWidths(line))
             y2 == cfg.position[2] + cfg.size[2]
             next_y == y + prepared.spaced_line_height
         IN  DrawRuns(line, 1, x, y, prepared.font_size, cfg)
             \o (IF next_y >= y2 THEN <<>>
                 ELSE DrawLines(prepared, n + 1, next_y, cfg))

\* the draw calls of draw_textarea
DrawTextarea(t, f, cfg) ==
    LET prepared == PrepareTextarea(t, f, cfg.size[1], cfg.size[2],
                                    cfg.max_font_size, cfg.line_spacing)
    IN  DrawLines(prepared, 1, BlockStartY(cfg, prepared.block_height), cfg)

Max(a, b) == IF a >= b THEN a ELSE b

\* mutant of ScaledDim: the conservative factor is left out
ScaledDimNoFactor(dim, target, original) ==
    LET Below(n) == n * n * original <= dim * dim * target
    IN  Max(CHOOSE n \in 0..dim : Below(n) /\ ~Below(n + 1), 1)

\* floor(dim * sqrt(target / original) * 0.9), at least 1
ScaledDim(dim, target, original) ==
    LET Below(n) == n * n * 100 * 100 * original
                        <= ConservativePercent * ConservativePercent * dim * dim * target
    IN  Max(CHOOSE n \in 0..dim : Below(n) /\ ~Below(n + 1), 1)

\* the PNG encoding of the raster: it fails, or has a size in bytes
EncodeOutcomes ==
    { [called |-> TRUE, ok |-> FALSE, size |-> 0] }
    \cup { [called |-> TRUE, ok |-> TRUE, size |-> n] : n \in {KiB, KiB + 1, 2 * KiB} }

NotEncoded == [called |-> FALSE, ok |-> FALSE, size |-> 0]

\* mutant of CompressImage: a raster exactly at the target is resized too
CompressImageStrict(img, target_size_bytes, enc) ==
    IF ~enc.ok THEN img
    ELSE IF enc.size < target_size_bytes THEN img
    ELSE [img EXCEPT !.w = ScaledDim(img.w, target_size_bytes, enc.size),
                     !.h = ScaledDim(img.h, target_size_bytes, enc.size),
                     !.paint = Append(@, PaintOp("resize", <<>>, 0, 0, 0, ""))]

\* compress_image: the raster as it is when the encoding fails or is within
\* the target, otherwise one resize
CompressImage(img, target_size_bytes, enc) ==
    IF ~enc.ok THEN img
    ELSE IF enc.size <= target_size_bytes THEN img
    ELSE [img EXCEPT !.w = ScaledDim(img.w, target_size_bytes, enc.size),
                     !.h = ScaledDim(img.h, target_size_bytes, enc.size),
                     !.paint = Append(@, PaintOp("resize", <<>>, 0, 0, 0, ""))]

----------------------------------------------------------------------------
(* Inputs *)

RECURSIVE SeqsUpTo(_, _)
SeqsUpTo(S, n) ==
    IF n = 0 THEN {<<>>}
    ELSE LET shorter == SeqsUpTo(S, n - 1)
         IN  shorter \cup {Append(s, c) : s \in {x \in shorter : Len(x) = n - 1}, c \in S}

\* the spec's parsing example "a[b]c", and paragraphs with the full-width markers
ExampleTexts ==
    { <<"a", "[", "b", "]", "c">>, <<"{", "a", "}", "a">>, <<"[", "a", "}", "{", "W", "]">> }

Texts == SeqsUpTo(Alphabet, MaxLen) \cup ExampleTexts

\* captions handed to the fitter
CaptionAlphabet == {"a", "W", NL}
HighlightCaptions ==
    { <<"[", "a", "]", "W">>, <<"a", "[", "W">>, <<"W", "[", "a", "]", NL, "a">> }
Captions == SeqsUpTo(CaptionAlphabet, MaxCaptionLen) \cup HighlightCaptions

Caps == {NoCap} \cup 0..MaxCap

LineSpacings == {[num |-> 0, den |-> 1], [num |-> 1, den |-> 2]}

\* the character's fixed objects
ImageObject(patterns) ==
    [type |-> "image", position |-> <<1, 1>>, path |-> patterns, text |-> <<>>,
     font_color |-> NoColor, font_size |-> 0]

TextObject(t) ==
    [type |-> "text", position |-> <<0, 0>>, path |-> <<>>, text |-> t,
     font_color |-> [kind |-> "literal", value |-> "white"], font_size |-> 2]

ObjectKinds ==
    {ImageObject(ps) : ps \in {<<"face">>, <<"bad">>, <<"none">>, <<"face", "bad">>}}
    \cup {TextObject(t) : t \in {<<>>, <<"a">>}}

ObjectLists == SeqsUpTo(ObjectKinds, MaxObjects)

BackgroundLists == {<<>>, <<"bg_ok">>, <<"bg_bad">>, <<"bg_bad", "bg_ok">>}

FontFiles == {"valid", "corrupt", "missing"}

\* the character's text area: 3 wide and 2 high, or 4 wide and 6 high
TextAreas ==
    { [position |-> <<1, 0>>, size |-> <<4, 6>>,
       font_color |-> [kind |-> "literal", value |-> "white"],
       highlight |-> [kind |-> "literal", value |-> "primary"],
       max_font_size |-> NoCap, shadow_offset |-> <<1, 1>>,
       line_spacing |-> [num |-> 1, den |-> 2],
       align |-> "Center", valign |-> "Middle"],
      [position |-> <<1, 1>>, size |-> <<3, 2>>,
       font_color |-> [kind |-> "literal", value |-> "primary"],
       highlight |-> [kind |-> "rgb", value |-> "red"],
       max_font_size |-> NoCap, shadow_offset |-> <<1, 1>>,
       line_spacing |-> [num |-> 0, den |-> 1],
       align |-> "Left", valign |-> "Top"],
      [position |-> <<0, 1>>, size |-> <<3, 2>>,
       font_color |-> [kind |-> "literal", value |-> "white"],
       highlight |-> NoColor,
       max_font_size |-> 1, shadow_offset |-> <<0, 0>>,
       line_spacing |-> [num |-> 0, den |-> 1],
       align |-> "Right", valign |-> "Bottom"] }

\* text areas of every alignment over regions of at least 1 by 1
PlaceSizes == {<<1, 1>>, <<2, 3>>, <<3, 2>>, <<4, 1>>, <<4, 4>>, <<4, 6>>}

PlaceAreas ==
    { [position |-> <<1, 1>>, size |-> sz,
       font_color |-> [kind |-> "literal", value |-> "white"],
       highlight |-> [kind |-> "literal", value |-> "primary"],
       max_font_size |-> NoCap, shadow_offset |-> <<1, 1>>,
       line_spacing |-> ls, align |-> al, valign |-> va] :
      sz \in PlaceSizes, ls \in LineSpacings,
      al \in {"Left", "Center", "Right"}, va \in {"Top", "Middle", "Bottom"} }

\* captions of one and of several lines, with and without runs, and none
PlaceCaptions ==
    { <<>>, <<"a">>, <<"a", "W">>, <<"a", NL, "W">>, <<"a", "[", "W", NL, NL>>,
      <<"[", "a", "]", "W", "a">>, <<"W", "W", "W", "W", "W", "W", "W">> }

\* an overlay without files and one whose only file does not decode, each
\* followed by a fixed text
PlaceObjects ==
    { <<ImageObject(<<"none">>), TextObject(<<"a">>)>>,
      <<ImageObject(<<"bad">>), TextObject(<<"a">>)>> }

\* a caption that fits at size 2, one that fits the text area at no size, and
\* one of two runs followed by a blank paragraph
GenCaptions ==
    { <<"[", "a", "]">>, <<"W", "W", "W", "W", "W", "W", "W">>,
      <<"a", "[", "W", NL, NL>> }

GenFont == CHOOSE f \in Fonts : f.units_per_em = 2

IdleGen ==
    /\ character_known = FALSE
    /\ backgrounds = <<>>
    /\ font_file = "missing"
    /\ objects = <<>>
    /\ textarea = CHOOSE a \in TextAreas : a.align = "Left"
    /\ max_size = 0
    /\ gpc = "idle"
    /\ loading = ""
    /\ loading_paths = <<>>
    /\ attempts = 0
    /\ obj_idx = 0
    /\ image = NoImage
    /\ encoded = NotEncoded
    /\ result = "none"
    /\ ret_image = NoImage
    /\ steps = <<>>
    /\ picks = <<>>

IdleWrap ==
    /\ scale = 1
    /\ max_width = 1
    /\ segments = <<>>
    /\ lines = <<>>
    /\ wpc = "idle"

IdleFit ==
    /\ region_width = 0
    /\ region_height = 0
    /\ max_font_size = NoCap
    /\ line_spacing = [num |-> 0, den |-> 1]
    /\ lo = 1
    /\ hi = 0
    /\ best_size = 1
    /\ best_lines = <<>>
    /\ best_spaced_line_height = 1
    /\ best_block_height = 1
    /\ fpc = "idle"
    /\ mids = <<>>

\* the modifier keys the hook tells apart, and the bit of each
ModifierKeys ==
    {"ShiftLeft", "ShiftRight", "ControlLeft", "ControlRight", "Alt", "AltGr"}

SHIFT_MASK == 1
CTRL_MASK == 2
ALT_MASK == 4

Masks == {SHIFT_MASK, CTRL_MASK, ALT_MASK}

MaskOf(key) ==
    IF key \in {"ShiftLeft", "ShiftRight"} THEN SHIFT_MASK
    ELSE IF key \in {"ControlLeft", "ControlRight"} THEN CTRL_MASK
    ELSE ALT_MASK

\* one bit of a u8
HasBit(v, mask) == (v \div mask) % 2 = 1

\* fetch_or(mask) and fetch_and(!mask) on the AtomicU8
SetModifierKey(v, mask, pressed) ==
    IF pressed
    THEN (IF HasBit(v, mask) THEN v ELSE v + mask)
    ELSE (IF HasBit(v, mask) THEN v - mask ELSE v)

NoReturn == [modifier_held |-> FALSE, result |-> "none"]

ProcessModes == {"Copy", "Paste", "Send"}

IdleTray ==
    /\ held = {}
    /\ MODIFIER_KEYS = 0
    /\ intercept_enter = FALSE
    /\ process_mode = "Copy"
    /\ is_processing = FALSE
    /\ enter_key_channel = 0
    /\ hotkey_channel = <<>>
    /\ epc = "idle"
    /\ workers = <<>>
    /\ last_return = NoReturn
    /\ enter_dropped = FALSE

----------------------------------------------------------------------------
(* wrap_text and parse_highlighted_text applied to every bounded input *)

InitWrap ==
    /\ text \in Texts
    /\ font \in Fonts
    /\ scale \in 1..MaxScale
    /\ max_width \in 1..MaxWidth
    /\ segments = <<>>
    /\ lines = <<>>
    /\ wpc = "input"
    /\ IdleFit
    /\ IdleGen
    /\ IdleTray

\* parse_highlighted_text is called on one paragraph
Parse ==
    /\ wpc = "input"
    /\ NL \notin {text[i] : i \in 1..Len(text)}
    /\ segments' = ParseHighlightedText(text)
    /\ wpc' = "parsed"
    /\ UNCHANGED <<trayVars, text, font, scale, max_width, lines, fitVars, genVars>>

Wrap ==
    /\ wpc = "input"
    /\ lines' = WrapText(text, font, scale, max_width)
    /\ wpc' = "wrapped"
    /\ UNCHANGED <<trayVars, text, font, scale, max_width, segments, fitVars, genVars>>

NextWrap == Parse \/ Wrap

SpecWrap == InitWrap /\ [][NextWrap]_vars

----------------------------------------------------------------------------
(* prepare_textarea run on every bounded input, one loop iteration a step *)

SearchState ==
    [lo |-> lo, hi |-> hi, best_size |-> best_size, best_lines |-> best_lines,
     best_spaced_line_height |-> best_spaced_line_height,
     best_block_height |-> best_block_height]

SetSearchState(st) ==
    /\ lo' = st.lo
    /\ hi' = st.hi
    /\ best_size' = st.best_size
    /\ best_lines' = st.best_lines
    /\ best_spaced_line_height' = st.best_spaced_line_height
    /\ best_block_height' = st.best_block_height

InitFit ==
    /\ text \in Captions
    /\ font \in Fonts
    /\ region_width \in 0..MaxRegion
    /\ region_height \in 0..MaxRegion
    /\ max_font_size \in Caps
    /\ line_spacing \in LineSpacings
    /\ LET st == InitialSearch(text, max_font_size, region_height)
       IN  /\ lo = st.lo
           /\ hi = st.hi
           /\ best_size = st.best_size
           /\ best_lines = st.best_lines
           /\ best_spaced_line_height = st.best_spaced_line_height
           /\ best_block_height = st.best_block_height
    /\ fpc = "search"
    /\ mids = <<>>
    /\ IdleWrap
    /\ IdleGen
    /\ IdleTray

\* the candidate of the current iteration
Mid == Candidate(text, font, region_width, line_spacing, Midpoint(lo, hi))

\* a feasible midpoint is recorded as the best and raises lo
SearchFeasible ==
    /\ fpc = "search"
    /\ LoopCond(lo, hi)
    /\ Fits(Mid.max_width, Mid.total_height, region_width, region_height)
    /\ SetSearchState(SearchStep(text, font, region_width, region_height,
                                 line_spacing, SearchState))
    /\ mids' = Append(mids, Midpoint(lo, hi))
    /\ UNCHANGED <<trayVars, text, font, wrapVars, fitArgs, fpc, genVars>>

\* an infeasible midpoint lowers hi
SearchInfeasible ==
    /\ fpc = "search"
    /\ LoopCond(lo, hi)
    /\ ~Fits(Mid.max_width, Mid.total_height, region_width, region_height)
    /\ SetSearchState(SearchStep(text, font, region_width, region_height,
                                 line_spacing, SearchState))
    /\ mids' = Append(mids, Midpoint(lo, hi))
    /\ UNCHANGED <<trayVars, text, font, wrapVars, fitArgs, fpc, genVars>>

Return ==
    /\ fpc = "search"
    /\ ~LoopCond(lo, hi)
    /\ fpc' = "returned"
    /\ UNCHANGED <<trayVars, text, font, wrapVars, fitArgs, lo, hi, best_size, best_lines,
                   best_spaced_line_height, best_block_height, mids, genVars>>

NextFit == SearchFeasible \/ SearchInfeasible \/ Return

SpecFit == InitFit /\ [][NextFit]_vars

\* the loop is about to run an iteration
Searching == fpc = "search" /\ LoopCond(lo, hi)

\* prepare_textarea runs in its caller's thread: an iteration that can run does
\* run (weak fairness of the loop body, which is enabled exactly when Searching
\* holds), and so does the return
SearchFairness ==
    []<>(~Searching) \/ []<><<SearchFeasible \/ SearchInfeasible>>_vars

SpecFitFair == SpecFit /\ WF_vars(Return) /\ SearchFairness

----------------------------------------------------------------------------
(* generate_image, one call or loop iteration a step *)

InitGen ==
    /\ text \in GenCaptions
    /\ font = GenFont
    /\ character_known \in BOOLEAN
    /\ backgrounds \in BackgroundLists
    /\ font_file \in FontFiles
    /\ objects \in ObjectLists
    /\ textarea \in TextAreas
    /\ max_size \in {0, 1}
    /\ gpc = "get_character"
    /\ loading = ""
    /\ loading_paths = <<>>
    /\ attempts = 0
    /\ obj_idx = 0
    /\ image = NoImage
    /\ encoded = NotEncoded
    /\ result = "none"
    /\ ret_image = NoImage
    /\ steps = <<>>
    /\ picks = <<>>
    /\ IdleWrap
    /\ IdleFit
    /\ IdleTray

\* return Err(..): the raster composed so far is dropped
ReturnErr ==
    /\ result' = "err"
    /\ ret_image' = NoImage
    /\ gpc' = "done"

\* a panic unwinds out of generate_image
Panic ==
    /\ result' = "panic"
    /\ ret_image' = NoImage
    /\ gpc' = "done"

\* get_character(character_id).ok_or_else(..)?
GetCharacter ==
    /\ gpc = "get_character"
    /\ IF character_known
       THEN gpc' = "get_backgrounds" /\ UNCHANGED <<result, ret_image>>
       ELSE ReturnErr
    /\ UNCHANGED <<trayVars, text, font, wrapVars, fitVars, genArgs, loading, loading_paths,
                   attempts, obj_idx, image, encoded, steps, picks>>

\* get_backgrounds(..).ok_or_else(..)?: None when the list is empty; then the
\* call of load_random_image for the background starts
GetBackgrounds ==
    /\ gpc = "get_backgrounds"
    /\ IF backgrounds # <<>>
       THEN /\ gpc' = "load_random_image"
            /\ loading' = "background"
            /\ loading_paths' = backgrounds
            /\ attempts' = 0
            /\ UNCHANGED <<result, ret_image>>
       ELSE /\ ReturnErr
            /\ UNCHANGED <<loading, loading_paths, attempts>>
    /\ UNCHANGED <<trayVars, text, font, wrapVars, fitVars, genArgs, obj_idx, image,
                   encoded, steps, picks>>

\* what the caller does with load_random_image's Option
LoadReturns(img) ==
    IF loading = "background"
    THEN IF img.some
         THEN /\ image' = img
              /\ steps' = Append(steps, "background")
              /\ gpc' = "load_font"
              /\ UNCHANGED <<result, ret_image, obj_idx>>
         ELSE /\ ReturnErr
              /\ UNCHANGED <<image, steps, obj_idx>>
    ELSE /\ IF img.some
            THEN /\ image' = [image EXCEPT !.paint =
                                 Append(@, PaintOp("overlay", img.paint[1].what,
                                                   objects[obj_idx].position[1],
                                                   objects[obj_idx].position[2], 0, ""))]
                 /\ steps' = Append(steps, "overlay")
            ELSE UNCHANGED <<image, steps>>
         /\ obj_idx' = obj_idx + 1
         /\ gpc' = "objects"
         /\ UNCHANGED <<result, ret_image>>

\* load_random_image on an empty list returns None at once
LoadEmpty ==
    /\ gpc = "load_random_image"
    /\ attempts = 0
    /\ PathsEmpty(loading_paths)
    /\ LoadReturns(NoImage)
    /\ UNCHANGED <<trayVars, text, font, wrapVars, fitVars, genArgs, loading, loading_paths,
                   attempts, encoded, picks>>

\* mutant of LoadAttempt: the number of passes is not limited
LoadAttemptUnbounded ==
    /\ gpc = "load_random_image"
    /\ ~PathsEmpty(loading_paths)
    /\ IF loading_paths = <<>>
       THEN /\ Panic
            /\ UNCHANGED <<image, steps, obj_idx, attempts, picks>>
       ELSE \E idx \in 1..Len(loading_paths) :
               /\ picks' = Append(picks, [call |-> loading, path |-> loading_paths[idx]])
               /\ attempts' = attempts + 1
               /\ IF LoadImage(loading_paths[idx]).some
                  THEN LoadReturns(LoadImage(loading_paths[idx]))
                  ELSE UNCHANGED <<gpc, image, steps, obj_idx, result, ret_image>>
    /\ UNCHANGED <<trayVars, text, font, wrapVars, fitVars, genArgs, loading, loading_paths,
                   encoded>>

\* one pass of the retry loop: a random index, load_image on that path;
\* random_range panics on an empty range
LoadAttempt ==
    /\ gpc = "load_random_image"
    /\ ~PathsEmpty(loading_paths)
    /\ attempts < MaxDecodeAttempts
    /\ IF loading_paths = <<>>
       THEN /\ Panic
            /\ UNCHANGED <<image, steps, obj_idx, attempts, picks>>
       ELSE \E idx \in 1..Len(loading_paths) :
               /\ picks' = Append(picks, [call |-> loading, path |-> loading_paths[idx]])
               /\ attempts' = attempts + 1
               /\ IF LoadImage(loading_paths[idx]).some
                  THEN LoadReturns(LoadImage(loading_paths[idx]))
                  ELSE UNCHANGED <<gpc, image, steps, obj_idx, result, ret_image>>
    /\ UNCHANGED <<trayVars, text, font, wrapVars, fitVars, genArgs, loading, loading_paths,
                   encoded>>

\* the loop ran out: None
LoadGiveUp ==
    /\ gpc = "load_random_image"
    /\ ~PathsEmpty(loading_paths)
    /\ attempts = MaxDecodeAttempts
    /\ LoadReturns(NoImage)
    /\ UNCHANGED <<trayVars, text, font, wrapVars, fitVars, genArgs, loading, loading_paths,
                   attempts, encoded, picks>>

\* load_font(..).ok_or_else(..)?, then get_character_images(..).unwrap()
LoadFontStep ==
    /\ gpc = "load_font"
    /\ IF LoadFont(font_file)
       THEN IF character_known
            THEN /\ gpc' = "objects"
                 /\ obj_idx' = 1
                 /\ steps' = Append(steps, "font")
                 /\ UNCHANGED <<result, ret_image>>
            ELSE Panic /\ UNCHANGED <<obj_idx, steps>>
       ELSE ReturnErr /\ UNCHANGED <<obj_idx, steps>>
    /\ UNCHANGED <<trayVars, text, font, wrapVars, fitVars, genArgs, loading, loading_paths,
                   attempts, image, encoded, picks>>

\* ObjectConfig::Image: collect the files, call load_random_image
ObjectImage ==
    /\ gpc = "objects"
    /\ obj_idx <= Len(objects)
    /\ objects[obj_idx].type = "image"
    /\ gpc' = "load_random_image"
    /\ loading' = "overlay"
    /\ loading_paths' = AvailableImgs(objects[obj_idx].path)
    /\ attempts' = 0
    /\ UNCHANGED <<trayVars, text, font, wrapVars, fitVars, genArgs, obj_idx, image, encoded,
                   result, ret_image, steps, picks>>

\* ObjectConfig::Text: drawn with the fixed shadow (2, 2) unless empty
ObjectText ==
    /\ gpc = "objects"
    /\ obj_idx <= Len(objects)
    /\ objects[obj_idx].type = "text"
    /\ LET o == objects[obj_idx]
       IN  IF o.text # <<>>
           THEN /\ image' = [image EXCEPT !.paint = @ \o
                      DrawTextWithShadow(o.text, o.position[1], o.position[2],
                                         o.font_size,
                                         ToRgba(o.font_color, PrimaryColor),
                                         <<2, 2>>)]
                /\ steps' = Append(steps, "text")
           ELSE UNCHANGED <<image, steps>>
    /\ obj_idx' = obj_idx + 1
    /\ UNCHANGED <<trayVars, text, font, wrapVars, fitVars, genArgs, gpc, loading,
                   loading_paths, attempts, encoded, result, ret_image, picks>>

\* mutant of DrawTextareaStep: the text area is painted before the objects
DrawTextareaStepFirst ==
    /\ gpc = "objects"
    /\ IF \A i \in 1..Len(steps) : steps[i] # "textarea"
       THEN /\ obj_idx = 1
            /\ image' = [image EXCEPT !.paint = @ \o DrawTextarea(text, font, textarea)]
            /\ steps' = Append(steps, "textarea")
            /\ UNCHANGED gpc
       ELSE /\ obj_idx > Len(objects)
            /\ gpc' = "finish"
            /\ UNCHANGED <<image, steps>>
    /\ UNCHANGED <<trayVars, text, font, wrapVars, fitVars, genArgs, loading, loading_paths,
                   attempts, obj_idx, encoded, result, ret_image, picks>>

\* after the last object: draw_textarea
DrawTextareaStep ==
    /\ gpc = "objects"
    /\ obj_idx > Len(objects)
    /\ image' = [image EXCEPT !.paint = @ \o DrawTextarea(text, font, textarea)]
    /\ steps' = Append(steps, "textarea")
    /\ gpc' = "finish"
    /\ UNCHANGED <<trayVars, text, font, wrapVars, fitVars, genArgs, loading, loading_paths,
                   attempts, obj_idx, encoded, result, ret_image, picks>>

\* max_size = 0: the raster is returned as it is
ReturnUncompressed ==
    /\ gpc = "finish"
    /\ max_size = 0
    /\ result' = "ok"
    /\ ret_image' = image
    /\ gpc' = "done"
    /\ UNCHANGED <<trayVars, text, font, wrapVars, fitVars, genArgs, loading, loading_paths,
                   attempts, obj_idx, image, encoded, steps, picks>>

\* max_size > 0: compress_image with max_size * 1024 bytes
ReturnCompressed ==
    /\ gpc = "finish"
    /\ max_size > 0
    /\ \E enc \in EncodeOutcomes :
          /\ encoded' = enc
          /\ ret_image' = CompressImage(image, max_size * KiB, enc)
    /\ steps' = Append(steps, "compress")
    /\ result' = "ok"
    /\ gpc' = "done"
    /\ UNCHANGED <<trayVars, text, font, wrapVars, fitVars, genArgs, loading, loading_paths,
                   attempts, obj_idx, image, picks>>

NextGen ==
    \/ GetCharacter
    \/ GetBackgrounds
    \/ LoadEmpty
    \/ LoadAttempt
    \/ LoadGiveUp
    \/ LoadFontStep
    \/ ObjectImage
    \/ ObjectText
    \/ DrawTextareaStep
    \/ ReturnUncompressed
    \/ ReturnCompressed

SpecGen == InitGen /\ [][NextGen]_vars

\* generate_image for a known character whose background and font load and
\* that has at most one fixed object: the calls that reach draw_textarea
InitDraw ==
    /\ InitGen
    /\ character_known
    /\ backgrounds = <<"bg_ok">>
    /\ font_file = "valid"
    /\ Len(objects) <= 1

SpecDraw == InitDraw /\ [][NextGen]_vars

\* generate_image for a character whose text area has any alignment
InitPlace ==
    /\ text \in PlaceCaptions
    /\ font = GenFont
    /\ character_known = TRUE
    /\ backgrounds = <<"bg_ok">>
    /\ font_file = "valid"
    /\ objects \in PlaceObjects
    /\ textarea \in PlaceAreas
    /\ max_size \in {0, 1}
    /\ gpc = "get_character"
    /\ loading = ""
    /\ loading_paths = <<>>
    /\ attempts = 0
    /\ obj_idx = 0
    /\ image = NoImage
    /\ encoded = NotEncoded
    /\ result = "none"
    /\ ret_image = NoImage
    /\ steps = <<>>
    /\ picks = <<>>
    /\ IdleWrap
    /\ IdleFit
    /\ IdleTray

SpecPlace == InitPlace /\ [][NextGen]_vars

\* generate_image runs to its return: the calls of load_random_image for a
\* known character with a loadable font, every step eventually taken
InitLoad ==
    /\ InitGen
    /\ character_known
    /\ font_file = "valid"
    /\ text = <<"[", "a", "]">>
    /\ textarea.align = "Left"

\* the steps of one call of load_random_image
LoadRandomImage == LoadEmpty \/ LoadAttempt \/ LoadGiveUp

\* the loop of load_random_image runs in the caller's thread: a step that can
\* be taken is taken
SpecLoad == InitLoad /\ [][NextGen]_vars /\ WF_vars(LoadRandomImage)

----------------------------------------------------------------------------
(* The tray application: keyboard hook thread, event loop, worker threads *)

coreVars == <<text, font, wrapVars, fitVars, genVars>>

\* what handle_enter_key does with a Return press: "pass" is Some(event),
\* "swallow" is on_enter() followed by None
HandleReturn(modifier_keys, intercept, whitelisted, processing) ==
    IF modifier_keys # 0 THEN "pass"
    ELSE IF ~intercept \/ ~whitelisted THEN "pass"
    ELSE IF processing THEN "pass"
    ELSE "swallow"

\* KeyPress of a modifier key reaches the hook
ModifierPress ==
    /\ epc # "idle"
    /\ \E key \in ModifierKeys \ held :
          /\ held' = held \cup {key}
          /\ MODIFIER_KEYS' = SetModifierKey(MODIFIER_KEYS, MaskOf(key), TRUE)
    /\ UNCHANGED <<coreVars, intercept_enter, process_mode, is_processing,
                   enter_key_channel, hotkey_channel, epc, workers, last_return,
                   enter_dropped>>

\* KeyRelease of a modifier key reaches the hook
ModifierRelease ==
    /\ epc # "idle"
    /\ \E key \in held :
          /\ held' = held \ {key}
          /\ MODIFIER_KEYS' = SetModifierKey(MODIFIER_KEYS, MaskOf(key), FALSE)
    /\ UNCHANGED <<coreVars, intercept_enter, process_mode, is_processing,
                   enter_key_channel, hotkey_channel, epc, workers, last_return,
                   enter_dropped>>

\* KeyPress(Return) reaches the hook; the whitelist test depends on the window
\* that has the focus
ReturnPress ==
    /\ epc # "idle"
    /\ enter_key_channel < MaxPending
    /\ \E whitelisted \in BOOLEAN :
          LET r == HandleReturn(MODIFIER_KEYS, intercept_enter, whitelisted,
                                is_processing)
          IN  /\ enter_key_channel' =
                     IF r = "swallow" THEN enter_key_channel + 1
                     ELSE enter_key_channel
              /\ last_return' = [modifier_held |-> held # {}, result |-> r]
    /\ UNCHANGED <<coreVars, held, MODIFIER_KEYS, intercept_enter, process_mode,
                   is_processing, hotkey_channel, epc, workers, enter_dropped>>

\* the system reports a registered hotkey
HotkeyEvent ==
    /\ epc # "idle"
    /\ Len(hotkey_channel) < MaxHotkeys
    /\ \E ev \in {"toggle", "generate", "released"} :
          hotkey_channel' = Append(hotkey_channel, ev)
    /\ UNCHANGED <<coreVars, held, MODIFIER_KEYS, intercept_enter, process_mode,
                   is_processing, enter_key_channel, epc, workers, last_return,
                   enter_dropped>>

NewWorker(mode, enable_max_chars) ==
    [pc |-> "start", mode |-> mode, enable_max_chars |-> enable_max_chars,
     exit |-> ""]

\* mutant of ProcessImageInThread: the flag is set but not tested
ProcessImageInThreadUntested(mode, enable_max_chars) ==
    /\ Len(workers) < MaxWorkers
    /\ is_processing' = TRUE
    /\ workers' = Append(workers, NewWorker(mode, enable_max_chars))

\* App::process_image_in_thread: under the lock, return when the flag is set,
\* else set it; then spawn the worker
ProcessImageInThread(mode, enable_max_chars) ==
    IF is_processing
    THEN UNCHANGED <<is_processing, workers>>
    ELSE /\ is_processing' = TRUE
         /\ workers' = Append(workers, NewWorker(mode, enable_max_chars))

\* new_events, first part: a tray menu event, if any. The messages not listed
\* change nothing of the modelled state.
PollMenu ==
    /\ epc = "menu"
    /\ \E msg \in {"none", "ToggleAutoPaste", "ToggleAutoSend", "ToggleIntercept"} :
          /\ process_mode' =
                 IF msg = "ToggleAutoPaste"
                 THEN (IF process_mode = "Copy" THEN "Paste" ELSE "Copy")
                 ELSE IF msg = "ToggleAutoSend"
                 THEN (IF process_mode = "Send" THEN "Paste" ELSE "Send")
                 ELSE process_mode
          /\ intercept_enter' =
                 IF msg = "ToggleIntercept" THEN ~intercept_enter
                 ELSE intercept_enter
    /\ epc' = "hotkey"
    /\ UNCHANGED <<coreVars, held, MODIFIER_KEYS, is_processing,
                   enter_key_channel, hotkey_channel, workers, last_return,
                   enter_dropped>>

\* new_events, second part: handle_hotkey_event on a received hotkey event
PollHotkey ==
    /\ epc = "hotkey"
    /\ epc' = "enter"
    /\ IF hotkey_channel = <<>>
       THEN UNCHANGED <<hotkey_channel, intercept_enter, is_processing, workers>>
       ELSE /\ hotkey_channel' = Tail(hotkey_channel)
            /\ IF Head(hotkey_channel) = "released"
               THEN UNCHANGED <<intercept_enter, is_processing, workers>>
               ELSE IF Head(hotkey_channel) = "toggle"
               THEN /\ intercept_enter' = ~intercept_enter
                    /\ UNCHANGED <<is_processing, workers>>
               ELSE /\ \E should_process \in BOOLEAN :
                          IF should_process
                          THEN ProcessImageInThread(process_mode, FALSE)
                          ELSE UNCHANGED <<is_processing, workers>>
                    /\ UNCHANGED intercept_enter
    /\ UNCHANGED <<coreVars, held, MODIFIER_KEYS, process_mode, enter_key_channel,
                   last_return, enter_dropped>>

\* new_events, last part: one message of the hook, if any, starts a render
PollEnter ==
    /\ epc = "enter"
    /\ epc' = "menu"
    /\ IF enter_key_channel > 0
       THEN /\ enter_key_channel' = enter_key_channel - 1
            /\ ProcessImageInThread("Send", TRUE)
            /\ enter_dropped' = (enter_dropped \/ workers' = workers)
       ELSE UNCHANGED <<enter_key_channel, is_processing, workers, enter_dropped>>
    /\ UNCHANGED <<coreVars, held, MODIFIER_KEYS, intercept_enter, process_mode,
                   hotkey_channel, last_return>>

SetWorker(i, pc, exit) ==
    workers' = [workers EXCEPT ![i] = [@ EXCEPT !.pc = pc, !.exit = exit]]

WorkerUnchanged ==
    UNCHANGED <<coreVars, held, MODIFIER_KEYS, intercept_enter, process_mode,
                is_processing, enter_key_channel, hotkey_channel, epc,
                last_return, enter_dropped>>

\* process_image: Clipboard::new and Enigo::new
WorkerStart ==
    /\ \E i \in 1..Len(workers) :
          /\ workers[i].pc = "start"
          /\ \E o \in {"ok", "no_clipboard", "no_input_simulator"} :
                IF o = "ok" THEN SetWorker(i, "copy", "")
                ELSE SetWorker(i, "returned", o)
    /\ WorkerUnchanged

\* process_image: select all, copy, read the clipboard text, test its length
WorkerCopy ==
    /\ \E i \in 1..Len(workers) :
          /\ workers[i].pc = "copy"
          /\ \E o \in {"unreadable", "empty", "over_length", "text"} :
                IF o \in {"unreadable", "empty"}
                THEN SetWorker(i, "returned", o)
                ELSE IF /\ o = "over_length"
                        /\ workers[i].mode = "Send"
                        /\ workers[i].enable_max_chars
                THEN SetWorker(i, "returned", o)
                ELSE SetWorker(i, "render", "")
    /\ WorkerUnchanged

\* process_image: generate_image
WorkerRender ==
    /\ \E i \in 1..Len(workers) :
          /\ workers[i].pc = "render"
          /\ \E rendered \in BOOLEAN :
                IF rendered THEN SetWorker(i, "write", "")
                ELSE SetWorker(i, "returned", "render_failed")
    /\ WorkerUnchanged

\* process_image: the image is put on the clipboard, then pasted and sent as
\* the mode says
WorkerWrite ==
    /\ \E i \in 1..Len(workers) :
          /\ workers[i].pc = "write"
          /\ \E written \in BOOLEAN :
                IF written THEN SetWorker(i, "returned", "success")
                ELSE SetWorker(i, "returned", "write_failed")
    /\ WorkerUnchanged

\* mutant of WorkerReset: the thread ends without resetting the flag
WorkerResetKeepsFlag ==
    /\ \E i \in 1..Len(workers) :
          /\ workers[i].pc = "returned"
          /\ workers' = SubSeq(workers, 1, i - 1) \o SubSeq(workers, i + 1, Len(workers))
    /\ UNCHANGED <<coreVars, held, MODIFIER_KEYS, intercept_enter, process_mode,
                   is_processing, enter_key_channel, hotkey_channel, epc,
                   last_return, enter_dropped>>

\* the worker's closure after process_image has returned: the flag is reset
\* and the thread ends
WorkerReset ==
    /\ \E i \in 1..Len(workers) :
          /\ workers[i].pc = "returned"
          /\ workers' = SubSeq(workers, 1, i - 1) \o SubSeq(workers, i + 1, Len(workers))
    /\ is_processing' = FALSE
    /\ UNCHANGED <<coreVars, held, MODIFIER_KEYS, intercept_enter, process_mode,
                   enter_key_channel, hotkey_channel, epc, last_return,
                   enter_dropped>>

\* a worker thread takes its next step
WorkerNext ==
    WorkerStart \/ WorkerCopy \/ WorkerRender \/ WorkerWrite \/ WorkerReset

\* App::new: the flag is false, the channels are empty, the hook is installed
InitTray ==
    /\ text = <<>>
    /\ font = GenFont
    /\ IdleWrap
    /\ IdleFit
    /\ IdleGen
    /\ held = {}
    /\ MODIFIER_KEYS = 0
    /\ intercept_enter \in BOOLEAN
    /\ process_mode \in ProcessModes
    /\ is_processing = FALSE
    /\ enter_key_channel = 0
    /\ hotkey_channel = <<>>
    /\ epc = "menu"
    /\ workers = <<>>
    /\ last_return = NoReturn
    /\ enter_dropped = FALSE

\* the hook thread's handler on its own
NextKeys == ModifierPress \/ ModifierRelease \/ ReturnPress

SpecKeys == InitTray /\ [][NextKeys]_vars

\* the hook on Return presses without modifiers, the event loop and the workers
NextTray ==
    \/ ReturnPress
    \/ HotkeyEvent
    \/ PollMenu
    \/ PollHotkey
    \/ PollEnter
    \/ WorkerStart
    \/ WorkerCopy
    \/ WorkerRender
    \/ WorkerWrite
    \/ WorkerReset

SpecTray == InitTray /\ [][NextTray]_vars

\* a spawned thread runs: process_image takes its steps and the closure ends
SpecTrayFair == SpecTray /\ WF_vars(WorkerNext)

----------------------------------------------------------------------------
(* Measures of a wrapped layout used by the properties *)

RECURSIVE ConcatRunTexts(_)
ConcatRunTexts(line) ==
    IF line = <<>> THEN <<>> ELSE Head(line)[1].text \o ConcatRunTexts(Tail(line))

RECURSIVE ConcatLines(_)
ConcatLines(ls) ==
    IF ls = <<>> THEN <<>> ELSE ConcatRunTexts(Head(ls)) \o ConcatLines(Tail(ls))

IsNotNewline(ch) == ch # NL

\* a line made of exactly one character that is wider than the limit
LoneWideChar(line, f, sc, mw) ==
    /\ Len(ConcatRunTexts(line)) = 1
    /\ MeasureTextWidth(ConcatRunTexts(line), f, sc) > mw

\* the highlight mode in force at position i of a paragraph: some start marker
\* at or before i has no end marker between it and i
ModeInForce(t, i) ==
    \E j \in 1..i : /\ t[j] \in StartMarkers
                    /\ \A k \in j..(i - 1) : t[k] \notin EndMarkers

----------------------------------------------------------------------------
(* Properties of wrap_text and parse_highlighted_text (SpecWrap) *)

\* C3: every line wrap_text returns has a sum of recorded run widths <= max
\* width, except a line that is one single character wider than max width; a
\* character wider than max width is always alone on its line.
C3_LinesWithinMaxWidth ==
    wpc = "wrapped" =>
        \A n \in 1..Len(lines) :
            /\ SumWidths(lines[n]) <= max_width
               \/ LoneWideChar(lines[n], font, scale, max_width)
            /\ (\E k \in 1..Len(ConcatRunTexts(lines[n])) :
                    MeasureTextWidth(<<ConcatRunTexts(lines[n])[k]>>, font, scale)
                        > max_width)
               => Len(ConcatRunTexts(lines[n])) = 1

\* C3 witness: a wrapped text with a lone over-wide character on one line and
\* a line of several characters that fills the width on another
C3_Witness ==
    /\ wpc = "wrapped"
    /\ \E n \in 1..Len(lines) : LoneWideChar(lines[n], font, scale, max_width)
    /\ \E n \in 1..Len(lines) : /\ Len(ConcatRunTexts(lines[n])) >= 2
                                /\ SumWidths(lines[n]) = max_width

\* C4: concatenating the texts of all runs of all lines wrap_text returns, in
\* order, gives back the characters of the wrapped paragraphs exactly (the text
\* without its line breaks): nothing is lost, duplicated or reordered.
C4_WrapRoundTrip ==
    wpc = "wrapped" => ConcatLines(lines) = SelectSeq(text, IsNotNewline)

\* C4 witness: one paragraph with a highlight marker, wrapped over several
\* lines, one of which holds two runs
C4_Witness ==
    /\ wpc = "wrapped"
    /\ Lines(text) = <<text>>
    /\ \E i \in 1..Len(text) : text[i] \in StartMarkers
    /\ Len(lines) >= 2
    /\ \E n \in 1..Len(lines) : Len(lines[n]) >= 2
    /\ ConcatLines(lines) = text

\* C5: parse_highlighted_text tags every character with the highlight mode in
\* force at it (a start marker and all that follows up to and including the
\* next end marker is highlighted, the rest is plain), the segments spell the
\* paragraph, and "a[b]c" gives ("a", plain), ("[b]", highlighted), ("c", plain).
C5_ParseTagsMode ==
    wpc = "parsed" =>
        /\ SegmentChars(segments) =
               [i \in 1..Len(text) |-> [ch |-> text[i], hl |-> ModeInForce(text, i)]]
        /\ text = <<"a", "[", "b", "]", "c">> =>
               segments = << TextSegment(<<"a">>, FALSE),
                             TextSegment(<<"[", "b", "]">>, TRUE),
                             TextSegment(<<"c">>, FALSE) >>

\* C5 witness: a parsed paragraph with a closed highlight, then an end marker
\* outside highlight mode, then an unterminated highlight
C5_Witness ==
    /\ wpc = "parsed"
    /\ text = <<"[", "a", "}", "{", "W", "]">>
    /\ segments = << TextSegment(<<"[", "a", "}">>, TRUE),
                     TextSegment(<<"{", "W", "]">>, TRUE) >>

----------------------------------------------------------------------------
(* Properties of prepare_textarea (SpecFit) *)

\* the search range [1, min(cap, region_height)], or [1, region_height] with no cap
SizeRange(cap, rh) == 1..(IF cap = NoCap THEN rh ELSE Min(cap, rh))

\* feasibility of a size as the contract words it: the text wrapped at that size
\* is no wider than the region and spaced_line_height * line_count no higher
FeasibleSize(t, f, rw, rh, ls, s) ==
    LET wrapped == WrapText(t, f, s, rw)
    IN  /\ MaxLineWidth(wrapped) <= rw
        /\ SpacedLineHeight(GetLineHeight(f, s), ls) * Len(wrapped) <= rh

FeasibleSizes ==
    {s \in SizeRange(max_font_size, region_height) :
        FeasibleSize(text, font, region_width, region_height, line_spacing, s)}

\* the returned layout is the one computed at size s
LayoutOfSize(s) ==
    LET wrapped == WrapText(text, font, s, region_width)
        slh == SpacedLineHeight(GetLineHeight(font, s), line_spacing)
    IN  /\ best_size = s
        /\ best_lines = wrapped
        /\ best_spaced_line_height = slh
        /\ best_block_height = slh * Len(wrapped)

\* C1: when some size of the search range is feasible, the returned font_size is
\* the largest feasible size of the range, and the returned lines,
\* spaced_line_height and block_height are those computed at that size.
C1_LargestFeasibleSize ==
    (fpc = "returned" /\ FeasibleSizes # {}) =>
        \E s \in FeasibleSizes :
            /\ \A s2 \in FeasibleSizes : s2 <= s
            /\ LayoutOfSize(s)

\* C1 witness: a returned search whose answer lies strictly inside the range
\* (a larger size of the range is infeasible, a smaller one feasible) and whose
\* layout has several lines
C1_Witness ==
    /\ fpc = "returned"
    /\ best_size >= 2
    /\ best_size \in FeasibleSizes
    /\ best_size + 1 \in SizeRange(max_font_size, region_height)
    /\ Len(best_lines) >= 2

\* C2: the result of prepare_textarea either fits the region (largest line sum
\* of recorded run widths <= region_width and block_height <= region_height)
\* or has font_size = 1.
C2_FitsOrSizeOne ==
    fpc = "returned" =>
        \/ /\ MaxLineWidth(best_lines) <= region_width
           /\ best_block_height <= region_height
        \/ best_size = 1

\* C2 witness: both outcomes are met: here a result of size above 1 that fits
\* with a capped search that tried a size that did not fit
C2_Witness ==
    /\ fpc = "returned"
    /\ best_size > 1
    /\ best_block_height = region_height
    /\ MaxLineWidth(best_lines) = region_width
    /\ best_size < MaxSize(max_font_size, region_height)

\* C6: with text, font, cap and line spacing fixed, a region at least as wide and
\* as high never gets a smaller font_size.
C6_MonotoneInRegion ==
    fpc = "returned" =>
        \A w2 \in region_width..MaxRegion, h2 \in region_height..MaxRegion :
            PrepareTextarea(text, font, w2, h2, max_font_size, line_spacing).font_size
                >= best_size

\* C6 witness: a returned search above size 1 for which a larger region of the
\* model gets a strictly larger size
C6_Witness ==
    /\ fpc = "returned"
    /\ best_size >= 2
    /\ \E w2 \in region_width..MaxRegion, h2 \in region_height..MaxRegion :
           PrepareTextarea(text, font, w2, h2, max_font_size, line_spacing).font_size
               > best_size

\* a text area of positive size (TextAreaConfig's invariant) and a caption
\* with at least one character
ProperInput == region_width >= 1 /\ region_height >= 1 /\ text # <<>>

\* C7 (as claimed): when no size of the search range is feasible (size 1 was
\* tried and does not fit), the result is the layout computed at size 1: the
\* lines of the text wrapped at size 1 with their highlight flags and measured
\* widths, and the spaced line height and block height of size 1.  Stated for
\* proper inputs with a non-empty search range.
C7_SizeOneLayoutClaimed ==
    (/\ fpc = "returned"
     /\ ProperInput
     /\ SizeRange(max_font_size, region_height) # {}
     /\ FeasibleSizes = {}) => LayoutOfSize(1)

\* C8 (as claimed): for region_height >= 1 and any configured cap the returned
\* font_size is at least 1 and at most min(cap, region_height).  Stated for
\* proper inputs.
C8_SizeInRangeClaimed ==
    (fpc = "returned" /\ ProperInput) =>
        /\ best_size >= 1
        /\ best_size <= (IF max_font_size = NoCap THEN region_height
                         ELSE Min(max_font_size, region_height))

\* C8 (amended): for region_height >= 1 the returned font_size is at least 1 and,
\* when no cap or a cap >= 1 is configured, at most min(cap, region_height)
\* (region_height with no cap); with a cap of 0 the font_size is 1.
C8_SizeInRange ==
    (fpc = "returned" /\ region_height >= 1) =>
        /\ best_size >= 1
        /\ max_font_size = NoCap => best_size <= region_height
        /\ (max_font_size # NoCap /\ max_font_size >= 1) =>
               best_size <= Min(max_font_size, region_height)
        /\ max_font_size = 0 => best_size = 1

\* C8 witness: a capped search that returns the cap although the region is higher
C8_Witness ==
    /\ fpc = "returned"
    /\ max_font_size # NoCap
    /\ max_font_size >= 2
    /\ max_font_size < region_height
    /\ best_size = max_font_size

----------------------------------------------------------------------------
(* Properties of generate_image (SpecGen) *)

\* no pick made for the background decoded (also when none was made)
NoBackgroundPickDecodes ==
    \A i \in 1..Len(picks) :
        picks[i].call = "background" => picks[i].path \notin DecodablePaths

\* no file of the character's background list decodes
NoBackgroundFileDecodes ==
    \A i \in 1..Len(backgrounds) : backgrounds[i] \notin DecodablePaths

\* steps that paint on the raster or compress it
LaterSteps == {"overlay", "text", "textarea", "compress"}

\* C9: when the character is unknown, none of the background picks decodes or
\* the font cannot be loaded, generate_image returns an error and no image, and
\* no overlay, text or compression step was executed.
C9_ErrorAndNoImage ==
    (/\ gpc = "done"
     /\ \/ ~character_known
        \/ NoBackgroundPickDecodes
        \/ font_file # "valid")
    => /\ result = "err"
       /\ ret_image = NoImage
       /\ \A i \in 1..Len(steps) : steps[i] \notin LaterSteps
       /\ \A i \in 1..Len(image.paint) : image.paint[i].op = "pixels"
       /\ ~encoded.called

\* C9 witness: the background was loaded, the font file does not parse, the
\* character has objects to paint: an error, and nothing returned
C9_Witness ==
    /\ gpc = "done"
    /\ result = "err"
    /\ font_file = "corrupt"
    /\ image.some
    /\ Len(objects) >= 1
    /\ max_size > 0

\* C10 (as claimed): generate_image returns an error only when the character is
\* unknown, no background image can be decoded, or the font cannot be loaded.
C10_ErrorOnlyIfMissingClaimed ==
    (gpc = "done" /\ result = "err") =>
        \/ ~character_known
        \/ NoBackgroundFileDecodes
        \/ font_file # "valid"

\* C10 (amended): generate_image never panics; it returns an error only when the
\* character is unknown, the character has no background file or none of the up
\* to 3 random background picks decodes, or the font cannot be loaded; in every
\* other situation it returns an image.
C10_ErrorOnlyIfMissing ==
    gpc = "done" =>
        /\ result \in {"ok", "err"}
        /\ result = "err" =>
               \/ ~character_known
               \/ NoBackgroundPickDecodes
               \/ font_file # "valid"
        /\ result = "ok" => ret_image.some
        /\ Len(picks) <= MaxDecodeAttempts * (1 + Len(objects))

\* C10 witness: an image is returned although an overlay object has no loadable
\* file, a fixed text object is empty, the caption fits at no size and the
\* raster, over the byte budget, was resized once
C10_Witness ==
    /\ gpc = "done"
    /\ result = "ok"
    /\ ret_image.some
    /\ objects = <<ImageObject(<<"bad">>), TextObject(<<>>)>>
    /\ \A i \in 1..Len(steps) : steps[i] \notin {"overlay", "text"}
    /\ Len(text) = 7
    /\ encoded.ok
    /\ encoded.size > max_size * KiB
    /\ ret_image.w < image.w

----------------------------------------------------------------------------
(* Properties of compress_image as generate_image calls it (SpecGen) *)

\* the resize steps recorded on a raster
ResizeCount(img) ==
    Cardinality({i \in 1..Len(img.paint) : img.paint[i].op = "resize"})

\* n = max(1, floor(dim * s)) for s = sqrt(target / actual) * 0.9, in integers
IsScaledFloor(n, dim, target, actual) ==
    /\ n >= 1
    /\ n = 1 \/ n * n * 10000 * actual <= 8100 * dim * dim * target
    /\ (n + 1) * (n + 1) * 10000 * actual > 8100 * dim * dim * target

\* C11: the composed raster is returned unmodified whenever max_size is 0 or
\* the encoded size is at most max_size * 1024 bytes; a returned raster that
\* differs from the composed one means the encoded size strictly exceeded the
\* byte target.
C11_UnmodifiedWithinBudget ==
    (gpc = "done" /\ result = "ok") =>
        /\ max_size = 0 => ret_image = image /\ ~encoded.called
        /\ (encoded.ok /\ encoded.size <= max_size * KiB) => ret_image = image
        /\ ret_image # image =>
               encoded.called /\ encoded.ok /\ encoded.size > max_size * KiB

\* C11 witness: the encoded size is exactly the byte target and the raster,
\* with the caption painted on it, comes back as composed
C11_Witness ==
    /\ gpc = "done"
    /\ result = "ok"
    /\ max_size > 0
    /\ encoded.ok
    /\ encoded.size = max_size * KiB
    /\ ret_image = image
    /\ \E i \in 1..Len(image.paint) : image.paint[i].op = "text"

\* C12: when the encoded size exceeds the target, the raster is resized exactly
\* once, to max(1, floor(w * s)) by max(1, floor(h * s)) with
\* s = sqrt(target / actual) * 0.9 (between 0.636 and 0.637 at twice the
\* target); each dimension is at least 1 and at most the input's.
C12_ResizeOnceByFactor ==
    (gpc = "done" /\ result = "ok" /\ encoded.ok /\ encoded.size > max_size * KiB)
    => /\ IsScaledFloor(ret_image.w, image.w, max_size * KiB, encoded.size)
       /\ IsScaledFloor(ret_image.h, image.h, max_size * KiB, encoded.size)
       /\ 1 <= ret_image.w /\ ret_image.w <= image.w
       /\ 1 <= ret_image.h /\ ret_image.h <= image.h
       /\ ResizeCount(ret_image) = 1
       /\ ResizeCount(image) = 0
       /\ encoded.size = 2 * max_size * KiB =>
              /\ 1000 * ret_image.w <= 637 * image.w
              /\ ret_image.w = 1 \/ 1000 * (ret_image.w + 1) > 636 * image.w
              /\ 1000 * ret_image.h <= 637 * image.h
              /\ ret_image.h = 1 \/ 1000 * (ret_image.h + 1) > 636 * image.h

\* C12 witness: a 4 by 3 raster encoded at twice the target comes back 2 by 1
C12_Witness ==
    /\ gpc = "done"
    /\ result = "ok"
    /\ encoded.ok
    /\ encoded.size = 2 * max_size * KiB
    /\ image.w = 4 /\ image.h = 3
    /\ ret_image.w = 2 /\ ret_image.h = 1

----------------------------------------------------------------------------
(* Properties of draw_textarea as generate_image calls it (SpecGen) *)

\* draw_textarea has just returned
TextareaDrawn == gpc = "finish"

\* the layout draw_textarea asks prepare_textarea for
Prepared ==
    PrepareTextarea(text, font, textarea.size[1], textarea.size[2],
                    textarea.max_font_size, textarea.line_spacing)

\* what was on the raster before draw_textarea: the background, one entry per
\* overlay, two per fixed text
ObjectOpsCount ==
    1 + Cardinality({i \in 1..Len(steps) : steps[i] = "overlay"})
      + 2 * Cardinality({i \in 1..Len(steps) : steps[i] = "text"})

\* the draw calls draw_textarea made, in order
TextareaOps == SubSeq(image.paint, ObjectOpsCount + 1, Len(image.paint))

\* the draw calls in the text colour: every second one, after its shadow
MainOps == [j \in 1..(Len(TextareaOps) \div 2) |-> TextareaOps[2 * j]]

\* <<n, k>> for every non-empty run k of line n
RunsOfLine(line, n) ==
    LET NonEmpty(nk) == line[nk[2]][1].text # <<>>
    IN  SelectSeq([k \in 1..Len(line) |-> <<n, k>>], NonEmpty)

RECURSIVE RunsFrom(_, _)
RunsFrom(ls, n) ==
    IF n > Len(ls) THEN <<>> ELSE RunsOfLine(ls[n], n) \o RunsFrom(ls, n + 1)

\* sum of the recorded widths of the non-empty runs before run k
PrecedingWidths(line, k) ==
    LET NonEmpty(run) == run[1].text # <<>>
    IN  SumWidths(SelectSeq(SubSeq(line, 1, k - 1), NonEmpty))

\* C13: a line of recorded width W starts at x1 (Left), x1 + (w - W) / 2
\* (Center) or x2 - W (Right); the block starts at y1 (Top),
\* y1 + (h - block_height) / 2 (Middle) or y2 - block_height (Bottom); the k-th
\* run starts at the line start plus the recorded widths of the preceding
\* non-empty runs.
C13_AlignedPlacement ==
    TextareaDrawn =>
        LET p == Prepared
            runs == RunsFrom(p.lines, 1)
            x1 == textarea.position[1]
            y1 == textarea.position[2]
            w == textarea.size[1]
            h == textarea.size[2]
        IN  /\ Len(MainOps) <= Len(runs)
            /\ \A j \in 1..Len(MainOps) :
                  LET n == runs[j][1]
                      k == runs[j][2]
                      line == p.lines[n]
                      W == SumWidths(line)
                      start_x == CASE textarea.align = "Left" -> x1
                                   [] textarea.align = "Center" -> x1 + TruncDiv(w - W, 2)
                                   [] textarea.align = "Right" -> x1 + w - W
                      start_y == CASE textarea.valign = "Top" -> y1
                                   [] textarea.valign = "Middle" ->
                                          y1 + TruncDiv(h - p.block_height, 2)
                                   [] textarea.valign = "Bottom" ->
                                          y1 + h - p.block_height
                  IN  /\ MainOps[j].what = line[k][1].text
                      /\ MainOps[j].x = start_x + PrecedingWidths(line, k)
                      /\ n = 1 => MainOps[j].y = start_y

\* C13 witness: a centred line of two runs, the second painted to the right of
\* the first by the first's recorded width, in a block placed by Middle
C13_Witness ==
    /\ gpc = "finish"
    /\ textarea.align = "Center"
    /\ textarea.valign = "Middle"
    /\ Len(Prepared.lines[1]) = 2
    /\ Len(MainOps) = 2
    /\ MainOps[2].x = MainOps[1].x + Prepared.lines[1][1][2]
    /\ MainOps[1].x = textarea.position[1]
                         + (textarea.size[1] - SumWidths(Prepared.lines[1])) \div 2

\* the block height draw_textarea places the block by, read back from the first
\* line's y: the region top for Top, and what Middle and Bottom subtract
StartYWith(block_height) ==
    CASE textarea.valign = "Top" -> textarea.position[2]
      [] textarea.valign = "Middle" ->
             textarea.position[2] + TruncDiv(textarea.size[2] - block_height, 2)
      [] textarea.valign = "Bottom" ->
             textarea.position[2] + textarea.size[2] - block_height

PaintedLines ==
    LET p == Prepared
        y2 == textarea.position[2] + textarea.size[2]
        Stops(n) == StartYWith(p.block_height) + n * p.spaced_line_height >= y2
        stops == {n \in 1..Len(p.lines) : Stops(n)}
    IN  IF stops = {} THEN Len(p.lines)
        ELSE CHOOSE n \in stops : \A m \in stops : n <= m

----------------------------------------------------------------------------
(* Monotonicity in the font size (SpecFit) *)

\* the candidate sizes compared: one more than any region height
AllSizes == 1..(MaxRegion + 1)

\* the fitter's test of size s on the inputs of the call
FitsAt(s) ==
    LET c == Candidate(text, font, region_width, line_spacing, s)
    IN  Fits(c.max_width, c.total_height, region_width, region_height)

\* C14: if a size is infeasible, the next size is infeasible too, hence every
\* larger size; and the sizes the binary search has discarded above hi are all
\* infeasible.
C14_FeasibilityMonotone ==
    /\ fpc = "returned" =>
          LET infeasible == {s \in AllSizes : ~FitsAt(s)}
          IN  \A s \in infeasible : s + 1 \in AllSizes => s + 1 \in infeasible
    /\ fpc = "search" =>
          \A s \in (hi + 1)..MaxSize(max_font_size, region_height) : ~FitsAt(s)

\* C14 witness: the search returned size 2 after discarding the larger sizes of
\* its range, of which size 3 and a size above it are infeasible
C14_Witness ==
    /\ fpc = "returned"
    /\ best_size = 2
    /\ FitsAt(2)
    /\ MaxSize(max_font_size, region_height) >= 4
    /\ ~FitsAt(3)
    /\ ~FitsAt(4)

\* C15 (as claimed): the maximum line width and the total height computed by the
\* fitter are both non-decreasing in the candidate size.
C15_DimensionsMonotoneClaimed ==
    (fpc = "returned" /\ ProperInput) =>
        \A s \in SizeRange(max_font_size, region_height) :
          \A s2 \in SizeRange(max_font_size, region_height) :
            s < s2 =>
               LET c == Candidate(text, font, region_width, line_spacing, s)
                   c2 == Candidate(text, font, region_width, line_spacing, s2)
               IN  /\ c.max_width <= c2.max_width
                   /\ c.total_height <= c2.total_height

\* C15 (amended): from each size to the next, hence to every larger one, the
\* total height and the line count do not decrease, and a maximum line width
\* above the region width stays above it.  The maximum line width itself may
\* shrink when a larger size breaks lines earlier.
C15_HeightAndWidthTestMonotone ==
    fpc = "returned" =>
        \A s \in AllSizes : \A s2 \in {s + 1} \cap AllSizes :
               LET c == Candidate(text, font, region_width, line_spacing, s)
                   c2 == Candidate(text, font, region_width, line_spacing, s2)
               IN  /\ c.total_height <= c2.total_height
                   /\ Len(c.lines) <= Len(c2.lines)
                   /\ c.max_width > region_width => c2.max_width > region_width

\* C15 witness: a larger size wraps into more lines, taller in total, whose
\* widest line is narrower
C15_Witness ==
    /\ fpc = "returned"
    /\ \E s \in AllSizes : \E s2 \in AllSizes :
          /\ s < s2
          /\ LET c == Candidate(text, font, region_width, line_spacing, s)
                 c2 == Candidate(text, font, region_width, line_spacing, s2)
             IN  /\ c2.max_width < c.max_width
                 /\ c2.total_height > c.total_height
                 /\ Len(c2.lines) > Len(c.lines)

----------------------------------------------------------------------------
(* Further properties of wrap_text and parse_highlighted_text (SpecWrap) *)

\* the running line width of wrap_text: the per-character widths summed
RECURSIVE SumCharWidths(_, _, _)
SumCharWidths(t, f, sc) ==
    IF t = <<>> THEN 0
    ELSE MeasureTextWidth(<<Head(t)>>, f, sc) + SumCharWidths(Tail(t), f, sc)

\* the positions in the text of its characters other than line breaks
NonBreakPositions ==
    LET NotBreakAt(i) == text[i] # NL
    IN  SelectSeq([i \in 1..Len(text) |-> i], NotBreakAt)

\* the number of characters on lines 1..n
CharsUpTo(ls, n) == Len(ConcatLines(SubSeq(ls, 1, n)))

\* lines n and n + 1 hold characters that are adjacent in the text, i.e. they
\* come from one paragraph
SameParagraph(n) ==
    LET c == CharsUpTo(lines, n)
    IN  /\ ConcatRunTexts(lines[n]) # <<>>
        /\ ConcatRunTexts(lines[n + 1]) # <<>>
        /\ NonBreakPositions[c + 1] = NonBreakPositions[c] + 1

\* C16: within a paragraph a line break comes before a character only when the
\* running width of the line (the per-character widths already placed) plus
\* that character's width exceeds max width.
C16_GreedyBreaks ==
    wpc = "wrapped" =>
        \A n \in 1..(Len(lines) - 1) :
            SameParagraph(n) =>
                SumCharWidths(ConcatRunTexts(lines[n]), font, scale)
                  + MeasureTextWidth(<<ConcatRunTexts(lines[n + 1])[1]>>, font, scale)
                > max_width

\* C16 witness: a paragraph broken after a line of two characters that exactly
\* fills max width, and a line with room left that the next character exceeds
C16_Witness ==
    /\ wpc = "wrapped"
    /\ \E n \in 1..(Len(lines) - 1) :
          /\ SameParagraph(n)
          /\ Len(ConcatRunTexts(lines[n])) = 2
          /\ SumCharWidths(ConcatRunTexts(lines[n]), font, scale) = max_width
    /\ \E n \in 1..(Len(lines) - 1) :
          /\ SameParagraph(n)
          /\ SumCharWidths(ConcatRunTexts(lines[n]), font, scale) < max_width

\* the positions of the line breaks that end an empty paragraph
BlankParagraphs ==
    LET EndsBlank(i) == text[i] = NL /\ (i = 1 \/ text[i - 1] = NL)
    IN  SelectSeq([i \in 1..Len(text) |-> i], EndsBlank)

\* the indexes of the wrapped lines that hold an empty run
BlankLines ==
    LET HasEmptyRun(n) == \E k \in 1..Len(lines[n]) : lines[n][k][1].text = <<>>
    IN  SelectSeq([n \in 1..Len(lines) |-> n], HasEmptyRun)

\* C17: every blank paragraph gives exactly one line made of a single empty,
\* non-highlighted, zero-width run, at its place among the other lines, and it
\* counts in the line count the total height is computed from; the empty text
\* gives exactly one such line, never an empty list.
C17_BlankParagraphLines ==
    wpc = "wrapped" =>
        /\ Len(lines) >= 1
        /\ \A j \in 1..Len(BlankLines) :
               lines[BlankLines[j]] = << <<[text |-> <<>>, is_highlighted |-> FALSE], 0>> >>
        /\ IF text = <<>>
           THEN Len(lines) = 1 /\ BlankLines = <<1>>
           ELSE /\ Len(BlankLines) = Len(BlankParagraphs)
                /\ \A j \in 1..Len(BlankLines) :
                      CharsUpTo(lines, BlankLines[j]) =
                          Len(SelectSeq(SubSeq(text, 1, BlankParagraphs[j]), IsNotNewline))
        /\ \A ls \in LineSpacings :
               LET lh == GetLineHeight(font, scale)
                   slh == SpacedLineHeight(lh, ls)
               IN  TotalHeight(lines, lh, slh)
                     = slh * (Len(BlankLines) + (Len(lines) - Len(BlankLines)))

\* C17 witness: a blank paragraph between two paragraphs of text
C17_Witness ==
    /\ wpc = "wrapped"
    /\ text = <<"a", NL, NL, "W">>
    /\ Len(lines) = 3
    /\ BlankLines = <<2>>
    /\ SumWidths(lines[2]) = 0

\* C18 (as claimed): every segment of parse_highlighted_text is non-empty and no
\* two consecutive segments carry the same is_highlighted value.
C18_MaximalRunsClaimed ==
    wpc = "parsed" =>
        /\ \A i \in 1..Len(segments) : segments[i].text # <<>>
        /\ \A i \in 1..(Len(segments) - 1) :
               segments[i].is_highlighted # segments[i + 1].is_highlighted

\* C18 (amended): every segment is non-empty; a highlighted segment starts with
\* a start marker and holds no other start marker, a plain segment holds none;
\* two plain segments are never consecutive, and there is one highlighted
\* segment for every start marker (so marker pairs in a row, or a start marker
\* inside an open highlight, give consecutive highlighted segments).
C18_SegmentsByMarkers ==
    wpc = "parsed" =>
        /\ \A i \in 1..Len(segments) :
               /\ segments[i].text # <<>>
               /\ segments[i].is_highlighted =>
                      /\ segments[i].text[1] \in StartMarkers
                      /\ \A k \in 2..Len(segments[i].text) :
                             segments[i].text[k] \notin StartMarkers
               /\ ~segments[i].is_highlighted =>
                      \A k \in 1..Len(segments[i].text) :
                          segments[i].text[k] \notin StartMarkers
        /\ \A i \in 1..(Len(segments) - 1) :
               segments[i].is_highlighted \/ segments[i + 1].is_highlighted
        /\ Cardinality({i \in 1..Len(segments) : segments[i].is_highlighted})
             = Cardinality({k \in 1..Len(text) : text[k] \in StartMarkers})

\* C18 witness: two marker pairs in a row give two consecutive highlighted
\* segments
C18_Witness ==
    /\ wpc = "parsed"
    /\ text = <<"[", "]", "[", "]">>
    /\ Len(segments) = 2
    /\ segments[1].is_highlighted
    /\ segments[2].is_highlighted

----------------------------------------------------------------------------
(* Order of the paint steps and of the draw calls (SpecGen) *)

\* the step painting an object of the given kind
StepOfObject(o) == IF o.type = "image" THEN "overlay" ELSE "text"

IsObjectStep(st) == st \in {"overlay", "text"}

\* a is b with some entries left out
RECURSIVE IsSubsequence(_, _)
IsSubsequence(a, b) ==
    IF a = <<>> THEN TRUE
    ELSE IF b = <<>> THEN FALSE
    ELSE IF Head(a) = Head(b) THEN IsSubsequence(Tail(a), Tail(b))
    ELSE IsSubsequence(a, Tail(b))

\* C21: the background is loaded first, then the fixed objects are painted one
\* by one in their declared order, then the text area, and only then the
\* compressor runs; no fixed object is painted after the text area, and a
\* successful call has gone through all of it.
C21_PaintOrder ==
    LET object_steps == SelectSeq(steps, IsObjectStep)
        handled == IF gpc = "objects" \/ (gpc = "load_random_image" /\ loading = "overlay")
                   THEN obj_idx - 1 ELSE Len(objects)
        declared == [i \in 1..handled |-> StepOfObject(objects[i])]
    IN  /\ \A i \in 1..Len(steps) :
              /\ steps[i] = "background" <=> i = 1
              /\ steps[i] = "font" <=> i = 2
              /\ IsObjectStep(steps[i]) =>
                     \A j \in 1..i : steps[j] \notin {"textarea", "compress"}
              /\ steps[i] = "textarea" =>
                     /\ \A j \in (i + 1)..Len(steps) : steps[j] = "compress"
                     /\ Len(object_steps) = i - 3
              /\ steps[i] = "compress" => i = Len(steps) /\ steps[i - 1] = "textarea"
        /\ IsSubsequence(object_steps, declared)
        /\ result = "ok" =>
              /\ Len(steps) >= 3
              /\ steps[3 + Len(object_steps)] = "textarea"
              /\ max_size > 0 <=> steps[Len(steps)] = "compress"

\* C21 witness: background, font, an overlay, a fixed text, the text area and
\* the compressor, in that order
C21_Witness ==
    /\ gpc = "done"
    /\ result = "ok"
    /\ objects = <<ImageObject(<<"face">>), TextObject(<<"a">>)>>
    /\ steps = <<"background", "font", "overlay", "text", "textarea", "compress">>

\* the draw calls of the fixed text objects: what is on the raster before
\* draw_textarea other than the background and the overlays
ObjectTextOps ==
    LET IsText(op) == op.op = "text"
    IN  SelectSeq(SubSeq(image.paint, 1, ObjectOpsCount), IsText)

\* ops[2j - 1], ops[2j] are a black draw at the offset and the same text, at
\* the same scale, at the nominal place
ShadowThenText(ops, j, offset) ==
    /\ ops[2 * j - 1].color = "black"
    /\ ops[2 * j - 1].what = ops[2 * j].what
    /\ ops[2 * j - 1].size = ops[2 * j].size
    /\ ops[2 * j - 1].x = ops[2 * j].x + offset[1]
    /\ ops[2 * j - 1].y = ops[2 * j].y + offset[2]

\* C22: every non-empty fixed text object and every painted non-empty caption
\* run gives exactly two draw calls of the same text at 1.3 times the measured
\* size: black at (x + dx, y + dy) first, then the resolved colour at (x, y).
C22_ShadowBeforeText ==
    TextareaDrawn =>
        LET p == Prepared
            runs == RunsFrom(SubSeq(p.lines, 1, PaintedLines), 1)
            texts == SelectSeq(objects, LAMBDA o : o.type = "text" /\ o.text # <<>>)
        IN  /\ Len(TextareaOps) = 2 * Len(runs)
            /\ \A j \in 1..Len(runs) :
                  LET run == p.lines[runs[j][1]][runs[j][2]][1]
                  IN  /\ ShadowThenText(TextareaOps, j, textarea.shadow_offset)
                      /\ TextareaOps[2 * j].what = run.text
                      /\ 10 * TextareaOps[2 * j].size = 13 * 10 * p.font_size
                      /\ TextareaOps[2 * j].color =
                            IF run.is_highlighted /\ textarea.highlight # NoColor
                            THEN ToRgba(textarea.highlight, PrimaryColor)
                            ELSE ToRgba(textarea.font_color, PrimaryColor)
            /\ Len(ObjectTextOps) = 2 * Len(texts)
            /\ \A j \in 1..Len(texts) :
                  /\ ShadowThenText(ObjectTextOps, j, <<2, 2>>)
                  /\ ObjectTextOps[2 * j].what = texts[j].text
                  /\ 10 * ObjectTextOps[2 * j].size = 13 * 10 * texts[j].font_size
                  /\ ObjectTextOps[2 * j].color = ToRgba(texts[j].font_color, PrimaryColor)
                  /\ ObjectTextOps[2 * j].x = texts[j].position[1]
                  /\ ObjectTextOps[2 * j].y = texts[j].position[2]

\* C22 witness: a fixed text and a highlighted caption run, each painted after
\* its shadow, the caption's shadow one pixel right and down
C22_Witness ==
    /\ gpc = "finish"
    /\ Len(ObjectTextOps) = 2
    /\ Len(TextareaOps) = 2
    /\ textarea.shadow_offset = <<1, 1>>
    /\ TextareaOps[1].color = "black"
    /\ TextareaOps[2].color = "red"
    /\ TextareaOps[1].x = TextareaOps[2].x + 1

----------------------------------------------------------------------------
(* load_random_image (SpecLoad) *)

InLoad == gpc = "load_random_image"

PathsOf(paths) == {paths[i] : i \in 1..Len(paths)}

\* load_random_image returns None to its caller
ReturnsNoImage ==
    /\ ~InLoad'
    /\ picks' = picks
    /\ loading = "background" => gpc' = "done" /\ result' = "err"
    /\ loading = "overlay" => gpc' = "objects" /\ image' = image

\* load_random_image returns the image decoded from path
ReturnsImageOf(path) ==
    /\ ~InLoad'
    /\ loading = "background" => image' = LoadImage(path)
    /\ loading = "overlay" =>
           /\ Len(image'.paint) = Len(image.paint) + 1
           /\ image'.paint[Len(image'.paint)].op = "overlay"
           /\ image'.paint[Len(image'.paint)].what = <<path>>

\* one step of a call of load_random_image
LoadStepAllowed ==
    InLoad =>
        \/ loading_paths = <<>> /\ attempts = 0 /\ ReturnsNoImage
        \/ loading_paths # <<>> /\ attempts = 3 /\ ReturnsNoImage
        \/ /\ loading_paths # <<>>
           /\ attempts < 3
           /\ Len(picks') = Len(picks) + 1
           /\ SubSeq(picks', 1, Len(picks)) = picks
           /\ LET pick == picks'[Len(picks')]
              IN  /\ pick.call = loading
                  /\ pick.path \in PathsOf(loading_paths)
                  /\ IF pick.path \in DecodablePaths
                     THEN ReturnsImageOf(pick.path)
                     ELSE InLoad' /\ attempts' = attempts + 1 /\ image' = image

\* the attempts made so far by the running call all failed
AttemptsSoFarFailed ==
    InLoad =>
        /\ attempts \in 0..3
        /\ attempts <= Len(picks)
        /\ \A i \in (Len(picks) - attempts + 1)..Len(picks) :
               /\ picks[i].call = loading
               /\ picks[i].path \in PathsOf(loading_paths)
               /\ picks[i].path \notin DecodablePaths

\* C23: load_random_image makes at most 3 attempts, each on a path of the list;
\* it returns the first image that decodes and stops, returns no image after 3
\* failures and, without an attempt, on an empty list; every call returns.
C23_AtMostThreeAttempts ==
    /\ []AttemptsSoFarFailed
    /\ [][LoadStepAllowed]_vars
    /\ InLoad ~> ~InLoad

\* C23 witness: the overlay call picked the file that does not decode, then the
\* one that does, and stopped
C23_Witness ==
    /\ gpc = "done"
    /\ result = "ok"
    /\ objects = <<ImageObject(<<"face", "bad">>)>>
    /\ picks = << [call |-> "background", path |-> "bg_ok"],
                  [call |-> "overlay", path |-> "face_bad"],
                  [call |-> "overlay", path |-> "face_ok"] >>
    /\ steps = <<"background", "font", "overlay", "textarea">>

----------------------------------------------------------------------------
(* Termination of the search of prepare_textarea (SpecFitFair) *)

\* one iteration: the midpoint lies in the interval and in [1, max_size], the
\* next interval is inside the old one, is shorter and leaves the midpoint out
IntervalShrinks ==
    Searching =>
        LET mid == Midpoint(lo, hi)
        IN  /\ mid \in lo..hi
            /\ mid \in 1..MaxSize(max_font_size, region_height)
            /\ lo' >= lo
            /\ hi' <= hi
            /\ hi' >= 0
            /\ hi' - lo' < hi - lo
            /\ mid \notin lo'..hi'
            /\ mids' = Append(mids, mid)

\* no midpoint is evaluated twice and hi stays a u32
EachSizeOnce ==
    fpc # "idle" =>
        /\ hi \in 0..MaxSize(max_font_size, region_height)
        /\ lo >= 1
        /\ \A i \in 1..Len(mids) :
               /\ mids[i] \in 1..MaxSize(max_font_size, region_height)
               /\ \A j \in 1..Len(mids) : mids[i] = mids[j] => i = j
        /\ MaxSize(max_font_size, region_height) = 0 => mids = <<>>

\* C25: the search of prepare_textarea terminates: every iteration strictly
\* shrinks [lo, hi], every size in [1, max_size] is evaluated at most once,
\* hi = mid - 1 never goes below 0, and with max_size = 0 no iteration runs.
C25_SearchTerminates ==
    /\ []EachSizeOnce
    /\ [][IntervalShrinks]_vars
    /\ <>(fpc = "returned")

\* C25 witness: the search evaluated sizes 3 and 1, both too large, and returned
\* with hi lowered to 0
C25_Witness ==
    /\ fpc = "returned"
    /\ mids = <<3, 1>>
    /\ hi = 0
    /\ lo = 1

----------------------------------------------------------------------------
(* Every line of a layout is painted inside the region (SpecPlace) *)

\* C26: for a region of at least 1 by 1 and a line spacing of at least 0,
\* draw_textarea paints every line of the layout (the early exit skips none),
\* every line's y lies in [y1, y2 - spaced_line_height] and every line's extent
\* [x, x + line width] lies in [x1, x2], for each align and each valign.
C26_LinesInsideRegion ==
    TextareaDrawn =>
        LET p == Prepared
            runs == RunsFrom(p.lines, 1)
            x1 == textarea.position[1]
            y1 == textarea.position[2]
            x2 == x1 + textarea.size[1]
            y2 == y1 + textarea.size[2]
        IN  /\ PaintedLines = Len(p.lines)
            /\ Len(MainOps) = Len(runs)
            /\ \A j \in 1..Len(MainOps) :
                  LET line == p.lines[runs[j][1]]
                      x == MainOps[j].x - PrecedingWidths(line, runs[j][2])
                  IN  /\ MainOps[j].y >= y1
                      /\ MainOps[j].y <= y2 - p.spaced_line_height
                      /\ x >= x1
                      /\ x + SumWidths(line) <= x2
            /\ \A n \in 1..Len(p.lines) :
                  LET y == BlockStartY(textarea, p.block_height)
                             + (n - 1) * p.spaced_line_height
                      x == LineStartX(textarea, SumWidths(p.lines[n]))
                  IN  /\ y >= y1
                      /\ y <= y2 - p.spaced_line_height
                      /\ x >= x1
                      /\ x + SumWidths(p.lines[n]) <= x2

\* C26 witness: two lines placed by Bottom and Right with a line spacing above
\* 0; the second is painted one spaced line height above the region bottom and
\* the first ends at the region's right edge
C26_Witness ==
    /\ gpc = "finish"
    /\ textarea.valign = "Bottom"
    /\ textarea.align = "Right"
    /\ textarea.line_spacing.num > 0
    /\ Len(Prepared.lines) = 2
    /\ Len(MainOps) = 2
    /\ MainOps[2].y = textarea.position[2] + textarea.size[2]
                        - Prepared.spaced_line_height
    /\ MainOps[1].y >= textarea.position[2]
    /\ MainOps[1].x + SumWidths(Prepared.lines[1])
          = textarea.position[1] + textarea.size[1]

----------------------------------------------------------------------------
(* The runs of a wrapped line (SpecWrap) *)

\* C27: every line returned by wrap_text has at least one run; a run with empty
\* text occurs only as the single run of the line that stands for a blank
\* paragraph (or for the empty text); two consecutive runs of a line differ in
\* is_highlighted.
C27_RunsNonEmptyAlternating ==
    wpc = "wrapped" =>
        /\ \A n \in 1..Len(lines) :
              /\ Len(lines[n]) >= 1
              /\ \/ lines[n] = EmptyLine
                 \/ \A k \in 1..Len(lines[n]) : lines[n][k][1].text # <<>>
              /\ \A k \in 1..(Len(lines[n]) - 1) :
                    lines[n][k][1].is_highlighted # lines[n][k + 1][1].is_highlighted
        /\ Len(BlankLines) = IF text = <<>> THEN 1 ELSE Len(BlankParagraphs)

\* C27 witness: a paragraph that opens with a highlighted part is wrapped into
\* a line of two runs, highlighted then plain, after a blank paragraph
C27_Witness ==
    /\ wpc = "wrapped"
    /\ text = <<NL, "[", "]", "a">>
    /\ Len(lines) = 2
    /\ lines[1] = EmptyLine
    /\ Len(lines[2]) = 2
    /\ lines[2][1][1] = TextSegment(<<"[", "]">>, TRUE)
    /\ lines[2][2][1] = TextSegment(<<"a">>, FALSE)

----------------------------------------------------------------------------
(* One render at a time (SpecTray, SpecTrayFair) *)

\* a trigger handled while the flag is set starts no worker
NoSecondWorker == is_processing => Len(workers') <= Len(workers)

\* C24: under every interleaving of hotkey events, intercepted Enter events and
\* worker completion at most one process_image worker exists at a time, and a
\* trigger that arrives while is_processing is true starts no second worker.
C24_AtMostOneWorker ==
    /\ [](Len(workers) <= 1)
    /\ [][NoSecondWorker]_vars

\* C24 witness: a worker is running and the message of a Return press was
\* consumed while it ran, without a second worker
C24_Witness ==
    /\ is_processing
    /\ Len(workers) = 1
    /\ workers[1].pc = "render"
    /\ enter_dropped

\* C28 (as claimed): every Return press the hook swallows makes
\* App::process_image_in_thread start a worker for it, i.e. no message of the
\* hook is consumed without a worker being started.
C28_SwallowedReturnProcessed == ~enter_dropped

ReturnPaths ==
    {"no_clipboard", "no_input_simulator", "unreadable", "empty", "over_length",
     "render_failed", "write_failed", "success"}

\* the flag is set exactly while a worker exists, and a worker that has left
\* process_image left it on one of its return paths
FlagIffWorker ==
    /\ is_processing <=> workers # <<>>
    /\ \A i \in 1..Len(workers) :
          workers[i].pc = "returned" <=> workers[i].exit \in ReturnPaths

\* a message of the hook received while the flag is clear starts a worker
TriggerStartsWorker ==
    (~is_processing /\ enter_key_channel' < enter_key_channel)
        => (is_processing' /\ Len(workers') = 1)

\* C29: is_processing is true exactly while a worker runs; on every return path
\* of process_image the worker resets it, so it is eventually false again and a
\* later trigger starts a new worker.
C29_FlagEventuallyReset ==
    /\ []FlagIffWorker
    /\ [][TriggerStartsWorker]_vars
    /\ is_processing ~> ~is_processing

\* C29 witness: a worker ran (a message was consumed while the flag was set),
\* has returned and has reset the flag
C29_Witness ==
    /\ enter_dropped
    /\ ~is_processing
    /\ workers = <<>>

----------------------------------------------------------------------------
(* The modifier bits of the keyboard hook (SpecKeys) *)

\* C30 (as claimed): a Return press that arrives while a Shift, Ctrl or Alt key
\* is held is passed through and triggers nothing, and each bit of
\* MODIFIER_KEYS is set exactly when a key of its modifier is held.
C30_ModifierBlocksReturn ==
    /\ last_return.modifier_held => last_return.result # "swallow"
    /\ \A mask \in Masks :
          HasBit(MODIFIER_KEYS, mask) <=> \E key \in held : MaskOf(key) = mask

====
